---------------------------- MODULE Spec2Model ----------------------------
(***************************************************************************)
(* A model of the partitioned vector retrieval engine of rag-service:      *)
(*   - VectorStore (src/core/vector_store.py): index lifecycle, single     *)
(*     index retrieval with its fallback tiers, cross-department fusion;   *)
(*   - DocumentProcessor.enhanced_context_window                           *)
(*     (src/core/document_processor.py): the context window refiner.       *)
(*                                                                         *)
(* The FAISS index of langchain is outside the repository.  A FAISS object *)
(* is modelled by its docstore: the sequence of stored Document objects in *)
(* insertion order.  Search calls return the Document objects of the       *)
(* docstore themselves (InMemoryDocstore.search returns the stored         *)
(* object), so a retrieval result is a sequence of docstore positions and  *)
(* every metadata assignment of the handlers is an assignment to the       *)
(* stored document.  Each library call of a request either answers,        *)
(* answers with nothing, or raises: the outcome is an input of the action. *)
(***************************************************************************)
EXTENDS Integers, Sequences, FiniteSets, TLC

VARIABLES
    use_mmr,                 \* config "use_mmr" of VectorStore.__init__
    vectorstore,             \* self.vectorstore: NoIndex or a docstore
    department_vectorstores, \* self.department_vectorstores: dept -> NoIndex or docstore
    dept_keys,               \* the keys of that dict, in insertion order
    disk,                    \* persisted index directories: name -> NoFile or docstore
    result,                  \* what the last operation returned, and how
    rq,                      \* the request at hand besides the store: the refiner's
                             \* input and output, or the threads of the service
    hist                     \* history: the last lifecycle operation, its calls

vars ==
    <<use_mmr, vectorstore, department_vectorstores, dept_keys, disk, result, rq, hist>>

(***************************************************************************)
(* Bounds of the model.                                                    *)
(***************************************************************************)
\* largest docstore built: adds beyond it are not issued
MaxDocs == 2

\* largest explicit result budget k
MaxK == 2

\* config "top_k_retrieval": the budget used when the caller passes none
top_k_retrieval == 2

(***************************************************************************)
(* Values.                                                                 *)
(***************************************************************************)
Departments == {"a", "b"}

GLOBAL == "global"

IndexNames == Departments \cup {GLOBAL}

\* an index object, in memory or persisted: whether it exists, and its docstore
Index(docs) == [built |-> TRUE, docs |-> docs]

\* self.vectorstore is None / the department is no key of the dict
NoIndex == [built |-> FALSE, docs |-> <<>>]

\* the directory holds no index files
NoFile == [built |-> FALSE, docs |-> <<>>]

NoDept == "none"

\* metadata has no 'relevance_score' key
NoScore == 0

\* the scores the handlers assign, in hundredths
ScoreDirect == 80

ScoreSearch == 85

ScoreFallback == 70

ScoreEmergency == 60

\* the department the ingestion pipeline gave chunk id
ChunkDept(id) == IF id % 2 = 1 THEN "a" ELSE "b"

\* a chunk as the ingestion pipeline supplies it: no relevance_score yet
Chunk(id) ==
    [id |-> id, kind |-> "chunk", department |-> ChunkDept(id),
     relevance_score |-> NoScore]

\* the Document FAISS.from_texts builds from a placeholder text: metadata {}
Placeholder ==
    [id |-> 0, kind |-> "placeholder", department |-> NoDept,
     relevance_score |-> NoScore]

RECURSIVE SeqsUpTo(_, _)
\* the sequences over S without repetition, of length <= n
SeqsUpTo(S, n) ==
    IF n = 0 THEN {<<>>}
    ELSE LET shorter == SeqsUpTo(S, n - 1)
             grow == {p \in shorter \X S :
                         /\ Len(p[1]) = n - 1
                         /\ \A i \in 1..Len(p[1]) : p[1][i] # p[2]}
         IN  shorter \cup {Append(p[1], p[2]) : p \in grow}

\* the chunks the ingestion pipeline supplies: two of each department
ChunkIds == {1, 2, 3, 4}

\* the chunk lists handed to initialize and add in the single-index runs:
\* those over one chunk of each department
ChunkLists == SeqsUpTo({Chunk(i) : i \in {1, 2}}, MaxDocs)

\* the chunk lists handed to initialize in the fusion runs: none, and the
\* whole corpus in the order of ingestion
FusionChunkLists == {<<>>, <<Chunk(1), Chunk(2), Chunk(3), Chunk(4)>>}

\* the query texts: the stored texts rank by id for one, by reverse id for the other
Queries == {1, 2}

\* a result budget as the caller passes it; 0 is the absent budget (k = None)
Budgets == 0..MaxK

(***************************************************************************)
(* The similarity index (the langchain FAISS object), by what its calls    *)
(* return.  D is a docstore: a sequence of documents in insertion order.   *)
(***************************************************************************)
Min(a, b) == IF a < b THEN a ELSE b

Max(a, b) == IF a < b THEN b ELSE a

Take(s, n) == SubSeq(s, 1, Min(n, Len(s)))

\* distance of the embedding of document d to the embedding of query q
Dist(q, d) == IF q = 1 THEN d.id ELSE 0 - d.id

\* similarity of d to the query
SimQ(q, d) == 0 - Dist(q, d)

\* similarity of two stored documents: equal texts are the most similar,
\* more than any text is to a query
SimD(d, e) == IF d.id = e.id /\ d.kind = e.kind THEN Cardinality(ChunkIds) + 1 ELSE 0

\* the position of the set S nearest to q; of two equally near, the older
Nearest(D, q, S) ==
    CHOOSE p \in S : \A r \in S :
        \/ Dist(q, D[p]) < Dist(q, D[r])
        \/ Dist(q, D[p]) = Dist(q, D[r]) /\ p <= r

RECURSIVE Ranked(_, _, _)
\* the positions of S by increasing distance to q
Ranked(D, q, S) ==
    IF S = {} THEN <<>>
    ELSE LET p == Nearest(D, q, S)
         IN  <<p>> \o Ranked(D, q, S \ {p})

\* FAISS.similarity_search(query, k): the k nearest documents
LibSimilaritySearch(D, q, k) == Take(Ranked(D, q, 1..Len(D)), k)

\* the marginal relevance of candidate p given the selected positions sel
\* (lambda_mult is the library default 0.5, the call passes none)
MmrScore(D, q, p, sel) ==
    LET redundant == CHOOSE x \in {SimD(D[p], D[sel[i]]) : i \in 1..Len(sel)} :
                         \A i \in 1..Len(sel) : SimD(D[p], D[sel[i]]) <= x
    IN  SimQ(q, D[p]) - redundant

RECURSIVE MmrSelect(_, _, _, _, _)
\* greedy selection among the candidates cand until k are selected
MmrSelect(D, q, cand, sel, k) ==
    LET rest == {i \in 1..Len(cand) : \A j \in 1..Len(sel) : sel[j] # cand[i]}
    IN  IF Len(sel) >= Min(k, Len(cand)) \/ rest = {} THEN sel
        ELSE LET best == CHOOSE i \in rest : \A j \in rest :
                             \/ MmrScore(D, q, cand[i], sel) > MmrScore(D, q, cand[j], sel)
                             \/ /\ MmrScore(D, q, cand[i], sel) = MmrScore(D, q, cand[j], sel)
                                /\ i <= j
             IN  MmrSelect(D, q, cand, Append(sel, cand[best]), k)

\* FAISS.max_marginal_relevance_search(query, k=k, fetch_k=k * 3)
LibMmrSearch(D, q, k) ==
    LET cand == LibSimilaritySearch(D, q, k * 3)
    IN  IF cand = <<>> THEN <<>>
        ELSE MmrSelect(D, q, cand, <<cand[1]>>, k)

\* what one library call does in a request
Out3 == {"ok", "empty", "raise"}

\* a library search call under outcome o: status and returned positions
LibCall(hits, o) ==
    CASE o = "ok"    -> [st |-> "ok", hits |-> hits]
      [] o = "empty" -> [st |-> "ok", hits |-> <<>>]
      [] OTHER       -> [st |-> "raise", hits |-> <<>>]

NoCall == [st |-> "none", hits |-> <<>>]

\* the outcomes of the library calls of one single-index request: the
\* diversity search, the first and the second plain search, and whether the
\* docstore can be enumerated; calls a path does not make are held fixed
Outcomes ==
    {oc \in [mmr : Out3, plain : Out3, plain2 : Out3, enum : BOOLEAN] :
        /\ oc.mmr = "ok" => oc.plain = "ok" /\ oc.plain2 = "ok" /\ oc.enum
        /\ oc.mmr = "raise" => oc.plain2 = "ok"
        /\ oc.plain = "ok" => oc.plain2 = "ok" /\ oc.enum
        /\ oc.plain = "empty" => oc.plain2 = "ok"
        /\ (oc.plain = "raise" /\ oc.plain2 = "ok" /\ oc.mmr = "empty") => oc.enum}

(***************************************************************************)
(* Retrieval on one index: similarity_search and search_department.        *)
(***************************************************************************)
\* k = k or self.top_k_retrieval
EffectiveK(k) == IF k = 0 THEN top_k_retrieval ELSE k

\* a store object without an 'index' attribute
HasIndexAttr_Missing(D) == FALSE

\* hasattr(vs, 'index'): FAISS.__init__ always sets the attribute
HasIndexAttr(D) == TRUE

\* the truth value of vs.index, a faiss index object
IndexTruthy(D) == TRUE

\* an enumeration that ignores the budget
EnumerateDocstore_All(D, k) == [i \in 1..Len(D) |-> i]

\* docstore_keys[0 : min(k, len(docstore_keys))]
EnumerateDocstore(D, k) == [i \in 1..Min(k, Len(D)) |-> i]

\* assignments that set the department only and leave the score as it is
Annotate_DepartmentOnly(D, hits, score, dept, overwrite) ==
    [p \in 1..Len(D) |->
        IF \E i \in 1..Len(hits) : hits[i] = p
        THEN [D[p] EXCEPT !.department = IF dept = NoDept THEN @ ELSE dept]
        ELSE D[p]]

\* the assignments to doc.metadata of the documents at the positions hits:
\* relevance_score (only if missing unless overwrite), department if given
Annotate(D, hits, score, dept, overwrite) ==
    [p \in 1..Len(D) |->
        IF \E i \in 1..Len(hits) : hits[i] = p
        THEN [D[p] EXCEPT
                !.relevance_score =
                    IF overwrite \/ @ = NoScore THEN score ELSE @,
                !.department = IF dept = NoDept THEN @ ELSE dept]
        ELSE D[p]]

\* the value e, named x in F(x): a call is made once and its result used
Bind(e, F(_)) == CHOOSE r \in {F(x) : x \in {e}} : TRUE

\* one attempted tier of a request and what came of it
Tier(name, call) ==
    [tier |-> name,
     out |-> IF call.st = "raise" THEN "raise"
             ELSE IF call.hits = <<>> THEN "empty" ELSE "hit"]

\* a primary strategy whose diversity search has no except clause: its
\* exception reaches the outer except block
PrimaryStage_NoExcept(mmr, D, q, k, oc) ==
    LET m == LibCall(LibMmrSearch(D, q, k), oc.mmr)
        p == LibCall(LibSimilaritySearch(D, q, k), oc.plain)
    IN  IF mmr /\ m.st = "raise"
        THEN [st |-> "raise", hits |-> <<>>, tiers |-> <<Tier("mmr", m)>>, plain |-> NoCall]
        ELSE IF mmr /\ m.hits # <<>>
        THEN [st |-> "ok", hits |-> m.hits, tiers |-> <<Tier("mmr", m)>>, plain |-> NoCall]
        ELSE [st |-> p.st, hits |-> p.hits,
              tiers |-> (IF mmr THEN <<Tier("mmr", m)>> ELSE <<>>) \o <<Tier("plain", p)>>,
              plain |-> p]

\* docs = self.vectorstore.similarity_search(query, k=k) outside a try of
\* its own: in the except clause of the diversity search, and in the else
\* branch; before are the tiers attempted before it
PlainSearch(D, q, k, oc, before) ==
    Bind(LibCall(LibSimilaritySearch(D, q, k), oc.plain),
         LAMBDA p : [st |-> p.st, hits |-> p.hits,
                     tiers |-> Append(before, Tier("plain", p)), plain |-> p])

\* the plain search of the except clause, after the plain search p raised
\* inside the try of the diversity search
PlainSearchAgain(D, q, k, oc, before, p) ==
    Bind(LibCall(LibSimilaritySearch(D, q, k), oc.plain2),
         LAMBDA p2 : [st |-> p2.st, hits |-> p2.hits,
                      tiers |-> before \o <<Tier("plain", p), Tier("plain", p2)>>,
                      plain |-> p2])

\* the plain search inside the try of the diversity search, made when that
\* returned nothing
PlainSearchInTry(D, q, k, oc, before) ==
    Bind(LibCall(LibSimilaritySearch(D, q, k), oc.plain),
         LAMBDA p : IF p.st = "raise" THEN PlainSearchAgain(D, q, k, oc, before, p)
                    ELSE [st |-> "ok", hits |-> p.hits,
                          tiers |-> Append(before, Tier("plain", p)), plain |-> p])

\* what follows the diversity search, whose call was m
AfterMmr(D, q, k, oc, m) ==
    IF m.st = "raise" THEN PlainSearch(D, q, k, oc, <<Tier("mmr", m)>>)
    ELSE IF m.hits = <<>> /\ HasIndexAttr(D) /\ IndexTruthy(D)
    THEN PlainSearchInTry(D, q, k, oc, <<Tier("mmr", m)>>)
    ELSE [st |-> "ok", hits |-> m.hits, tiers |-> <<Tier("mmr", m)>>, plain |-> NoCall]

\* the primary strategy with its plain fallback (the if/else on self.use_mmr,
\* whose value is mmr)
PrimaryStage(mmr, D, q, k, oc) ==
    IF mmr
    THEN Bind(LibCall(LibMmrSearch(D, q, k), oc.mmr), LAMBDA m : AfterMmr(D, q, k, oc, m))
    ELSE PlainSearch(D, q, k, oc, <<>>)

\* an enumeration of the docstore under outcome oc.enum, as a call
EnumCall(D, k, oc) ==
    IF oc.enum THEN [st |-> "ok", hits |-> EnumerateDocstore(D, k)]
    ELSE [st |-> "raise", hits |-> <<>>]

\* the direct retrieval at the head of the try block, taken when the
\* docstore has keys and the store has no 'index' attribute
DirectStage(D, k, dept, oc) ==
    IF Len(D) > 0 /\ ~HasIndexAttr(D)
    THEN Bind(EnumCall(D, k, oc),
              LAMBDA e : IF e.st = "ok"
                         THEN [st |-> "return",
                               D |-> Annotate(D, e.hits, ScoreDirect, dept, TRUE),
                               hits |-> e.hits, tiers |-> <<Tier("direct", e)>>,
                               plain |-> NoCall]
                         ELSE [st |-> "continue", D |-> D, hits |-> <<>>,
                               tiers |-> <<Tier("direct", e)>>, plain |-> NoCall])
    ELSE [st |-> "continue", D |-> D, hits |-> <<>>, tiers |-> <<>>, plain |-> NoCall]

\* the fallback enumeration of the try block, made when the searches
\* returned nothing
FallbackStage(D, k, dept, oc, tiers, plain) ==
    Bind(EnumCall(D, k, oc),
         LAMBDA e : [st |-> "return",
                     D |-> Annotate(D, e.hits, ScoreFallback, dept, TRUE),
                     hits |-> e.hits, tiers |-> Append(tiers, Tier("enum", e)),
                     plain |-> plain])

\* the try block after the primary stage s: the scores of the found
\* documents, or the fallback enumeration
AfterPrimary(D, k, dept, oc, d, s) ==
    IF s.st = "raise"
    THEN [st |-> "raise", D |-> D, hits |-> <<>>,
          tiers |-> d.tiers \o s.tiers, plain |-> s.plain]
    ELSE IF s.hits = <<>>
    THEN FallbackStage(D, k, dept, oc, d.tiers \o s.tiers, s.plain)
    ELSE [st |-> "return", D |-> Annotate(D, s.hits, ScoreSearch, dept, FALSE),
          hits |-> s.hits, tiers |-> d.tiers \o s.tiers, plain |-> s.plain]

\* the try block after the direct stage d
AfterDirect(mmr, D, q, k, dept, oc, d) ==
    IF d.st = "return" THEN d
    ELSE Bind(PrimaryStage(mmr, D, q, k, oc),
              LAMBDA s : AfterPrimary(D, k, dept, oc, d, s))

\* the body of the outer try block
TryBody(mmr, D, q, k, dept, oc) ==
    Bind(DirectStage(D, k, dept, oc), LAMBDA d : AfterDirect(mmr, D, q, k, dept, oc, d))

\* an outer except block that only returns the empty list
EmergencyStage_Empty(D, k, dept, oc, b) ==
    [st |-> "return", D |-> D, hits |-> <<>>, tiers |-> b.tiers, plain |-> b.plain]

\* the outer except block: the emergency enumeration, else the empty list
EmergencyStage(D, k, dept, oc, b) ==
    Bind(EnumCall(D, k, oc),
         LAMBDA e : [st |-> "return",
                     D |-> Annotate(D, e.hits, ScoreEmergency, dept, TRUE),
                     hits |-> e.hits,
                     tiers |-> Append(b.tiers, Tier("emergency", e)),
                     plain |-> b.plain])

\* one retrieval on an existing index: try body, then the except block
SearchIndex(mmr, D, q, k, dept, oc) ==
    Bind(TryBody(mmr, D, q, k, dept, oc),
         LAMBDA b : IF b.st = "raise" THEN EmergencyStage(D, k, dept, oc, b) ELSE b)

\* the returned Document objects: the stored documents at the hit positions
Returned(src, D, hits) ==
    [i \in 1..Len(hits) |->
        [src |-> src, pos |-> hits[i], id |-> D[hits[i]].id, kind |-> D[hits[i]].kind,
         department |-> D[hits[i]].department,
         relevance_score |-> D[hits[i]].relevance_score]]

(***************************************************************************)
(* The index manager: initialize_vectorstore, its department twin, and the *)
(* two add operations.  Each operator gives the in-memory index (mem), the *)
(* persisted directory (file) and the returned success flag (ok).          *)
(***************************************************************************)
\* which library / file system calls of one lifecycle operation succeed:
\* load_local, the index construction (or insertion), save_local, and the
\* construction of the fallback placeholder; calls not reached are held TRUE
IOs ==
    {io \in [load : BOOLEAN, build : BOOLEAN, save : BOOLEAN, fallback : BOOLEAN] :
        /\ ~io.build => io.save
        /\ ~io.fallback => (~io.build \/ ~io.save)}

\* no filter: every chunk of the list
DeptChunks_All(chunks, department) == chunks

\* [chunk for chunk in chunks if chunk.metadata.get('department') == department]
DeptChunks(chunks, department) ==
    SelectSeq(chunks, LAMBDA c : c.department = department)

\* what the library and file system calls of one lifecycle operation did:
\* "ok", "raise", or "none" for a call the operation did not make
NotCalled == [load |-> "none", build |-> "none", save |-> "none", fallback |-> "none"]

\* an except block that reports success whatever the fallback did
InitFallback_Silent(mem, file, io, calls) ==
    [mem |-> IF io.fallback THEN Index(<<Placeholder>>) ELSE mem, file |-> file,
     ok |-> TRUE, calls |-> [calls EXCEPT !.fallback = IF io.fallback THEN "ok" ELSE "raise"]]

\* the except block of both initialize operations: one fallback placeholder
InitFallback(mem, file, io, calls) ==
    IF io.fallback
    THEN [mem |-> Index(<<Placeholder>>), file |-> file, ok |-> TRUE,
          calls |-> [calls EXCEPT !.fallback = "ok"]]
    ELSE [mem |-> mem, file |-> file, ok |-> FALSE,
          calls |-> [calls EXCEPT !.fallback = "raise"]]

\* a creation that writes the chunks it was given to the directory, without
\* the placeholder text of an index built from none
CreateAndSave_ChunksOnly(mem, file, docs, io, calls) ==
    [mem |-> Index(IF docs = <<>> THEN <<Placeholder>> ELSE docs),
     file |-> Index(docs), ok |-> TRUE,
     calls |-> [calls EXCEPT !.build = "ok", !.save = "ok"]]

\* create the index from docs (a placeholder if there are none) and save it
CreateAndSave(mem, file, docs, io, calls) ==
    LET built == IF docs = <<>> THEN <<Placeholder>> ELSE docs
    IN  IF ~io.build
        THEN InitFallback(mem, file, io, [calls EXCEPT !.build = "raise"])
        ELSE IF ~io.save
        THEN InitFallback(Index(built), file, io,
                          [calls EXCEPT !.build = "ok", !.save = "raise"])
        ELSE [mem |-> Index(built), file |-> Index(built), ok |-> TRUE,
              calls |-> [calls EXCEPT !.build = "ok", !.save = "ok"]]

\* the load branch is taken: os.path.exists(path) and not rebuild and not
\* chunks; the directory always exists, the index files in it may not
LoadAttempted(chunks, rebuild) == ~rebuild /\ chunks = <<>>

\* FAISS.load_local succeeds: the index files exist and can be read
LoadOk(file, io) == file.built /\ io.load

\* VectorStore.initialize_vectorstore(chunks, rebuild)
initialize_vectorstore(mem, file, chunks, rebuild, io) ==
    IF LoadAttempted(chunks, rebuild) /\ LoadOk(file, io)
    THEN [mem |-> file, file |-> file, ok |-> TRUE,
          calls |-> [NotCalled EXCEPT !.load = "ok"]]
    ELSE CreateAndSave(mem, file, chunks, io,
             [NotCalled EXCEPT !.load = IF LoadAttempted(chunks, rebuild)
                                        THEN "raise" ELSE "none"])

\* VectorStore.initialize_department_vectorstore(department, chunks, rebuild)
initialize_department_vectorstore(department, mem, file, chunks, rebuild, io) ==
    IF LoadAttempted(chunks, rebuild) /\ LoadOk(file, io)
    THEN [mem |-> file, file |-> file, ok |-> TRUE,
          calls |-> [NotCalled EXCEPT !.load = "ok"]]
    ELSE CreateAndSave(mem, file, DeptChunks(chunks, department), io,
             [NotCalled EXCEPT !.load = IF LoadAttempted(chunks, rebuild)
                                        THEN "raise" ELSE "none"])

\* an insertion that is undone when saving fails
InsertAndSave_Undone(mem, file, docs, io) ==
    IF io.build /\ io.save
    THEN [mem |-> Index(mem.docs \o docs), file |-> Index(mem.docs \o docs),
          ok |-> TRUE, calls |-> [NotCalled EXCEPT !.build = "ok", !.save = "ok"]]
    ELSE [mem |-> mem, file |-> file, ok |-> FALSE,
          calls |-> [NotCalled EXCEPT !.build = IF io.build THEN "ok" ELSE "raise",
                                      !.save = IF io.build THEN "raise" ELSE "none"]]

\* the try block of both add operations: insert, then save
InsertAndSave(mem, file, docs, io) ==
    IF ~io.build
    THEN [mem |-> mem, file |-> file, ok |-> FALSE,
          calls |-> [NotCalled EXCEPT !.build = "raise"]]
    ELSE IF ~io.save
    THEN [mem |-> Index(mem.docs \o docs), file |-> file, ok |-> FALSE,
          calls |-> [NotCalled EXCEPT !.build = "ok", !.save = "raise"]]
    ELSE [mem |-> Index(mem.docs \o docs), file |-> Index(mem.docs \o docs),
          ok |-> TRUE,
          calls |-> [NotCalled EXCEPT !.build = "ok", !.save = "ok"]]

\* VectorStore.add_documents(chunks)
add_documents(mem, file, chunks, io) ==
    IF chunks = <<>> THEN [mem |-> mem, file |-> file, ok |-> FALSE, calls |-> NotCalled]
    ELSE IF ~mem.built THEN initialize_vectorstore(mem, file, chunks, FALSE, io)
    ELSE InsertAndSave(mem, file, chunks, io)

\* VectorStore.add_documents_to_department(department, chunks)
add_documents_to_department(department, mem, file, chunks, io) ==
    IF chunks = <<>> THEN [mem |-> mem, file |-> file, ok |-> FALSE, calls |-> NotCalled]
    ELSE IF ~mem.built
    THEN initialize_department_vectorstore(department, mem, file, chunks, FALSE, io)
    ELSE IF DeptChunks(chunks, department) = <<>>
    THEN [mem |-> mem, file |-> file, ok |-> TRUE, calls |-> NotCalled]
    ELSE InsertAndSave(mem, file, DeptChunks(chunks, department), io)

(***************************************************************************)
(* The state machine of the vector store.                                  *)
(***************************************************************************)
NoOutcome == [mmr |-> "ok", plain |-> "ok", plain2 |-> "ok", enum |-> TRUE]

NoSearch == [st |-> "return", D |-> <<>>, hits |-> <<>>, tiers |-> <<>>, plain |-> NoCall]

\* the record of the last operation: its arguments, what it returned (ok for
\* the lifecycle operations, docs for the retrievals), whether it raised, and
\* for a retrieval the tiers it attempted and the outcomes of its library calls
OpResult(op, target) ==
    [op |-> op, target |-> target, q |-> 0, k |-> 0, ok |-> TRUE, docs |-> <<>>,
     raised |-> FALSE, tiers |-> <<>>, plain |-> NoCall, oc |-> NoOutcome,
     path |-> "none", scan |-> <<>>, merged |-> <<>>, departments |-> <<>>,
     threshold |-> 0, max_similarity |-> 0, has_relevant_context |-> FALSE]

\* get_index_stats: the size reported for one index, len(index_to_docstore_id)
chunk_count(mem) == IF mem.built THEN Len(mem.docs) ELSE 0

\* the history of a store on which no lifecycle operation has run
NoHist ==
    [op |-> "none", target |-> GLOBAL, chunks |-> <<>>, rebuild |-> FALSE,
     ok |-> TRUE, calls |-> NotCalled, before |-> 0, count |-> 0,
     prev |-> [what |-> "none", target |-> GLOBAL]]

\* what the history keeps of the operation before the last: its target, and
\* whether it was a successful initialize(chunks=None, rebuild=False) that
\* loaded or saved its index ("initialize"), or anything else ("other")
Summary(h) ==
    [what |-> IF /\ h.op = "initialize" /\ h.chunks = <<>> /\ ~h.rebuild /\ h.ok
                 /\ (h.calls.load = "ok" \/ h.calls.save = "ok")
              THEN "initialize"
              ELSE IF h.op = "none" THEN "none"
              ELSE "other",
     target |-> h.target]

\* the history after a lifecycle operation on the index mem that returned r:
\* its arguments, what it returned, what its library calls did, and the
\* chunk count get_index_stats reports for its index before and after it
Recorded(op, target, mem, chunks, rebuild, r) ==
    [op |-> op, target |-> target, chunks |-> chunks, rebuild |-> rebuild,
     ok |-> r.ok, calls |-> r.calls, before |-> chunk_count(mem),
     count |-> chunk_count(r.mem), prev |-> Summary(hist)]

\* the record of a single-index retrieval that ran r under outcomes oc
SearchResult(op, target, q, k, r, oc) ==
    [OpResult(op, target) EXCEPT
        !.q = q, !.k = k, !.docs = Returned(target, r.D, r.hits),
        !.raised = (r.st = "raise"), !.tiers = r.tiers, !.plain = r.plain, !.oc = oc]

\* adds beyond MaxDocs are not issued
Fits(mem, chunks) == Len(mem.docs) + Len(chunks) <= MaxDocs

\* self.department_vectorstores[department] = ...: a new key goes last
WithKey(keys, department) ==
    IF \E i \in 1..Len(keys) : keys[i] = department THEN keys
    ELSE Append(keys, department)

StoreInit ==
    /\ use_mmr \in BOOLEAN
    /\ vectorstore = NoIndex
    /\ department_vectorstores = [d \in Departments |-> NoIndex]
    /\ dept_keys = <<>>
    /\ disk = [n \in IndexNames |-> NoFile]
    /\ result = OpResult("none", GLOBAL)
    /\ hist = NoHist

\* initialize_vectorstore called by a client
InitializeVectorstore(chunks, rebuild, io) ==
    LET r == initialize_vectorstore(vectorstore, disk[GLOBAL], chunks, rebuild, io)
    IN  /\ vectorstore' = r.mem
        /\ disk' = [disk EXCEPT ![GLOBAL] = r.file]
        /\ result' = [OpResult("initialize", GLOBAL) EXCEPT !.ok = r.ok]
        /\ UNCHANGED <<use_mmr, department_vectorstores, dept_keys, rq>>

\* a department index kept in the directory of the global index
InitializeDepartmentVectorstore_SharedPath(department, chunks, rebuild, io) ==
    LET r == initialize_department_vectorstore(department,
                 department_vectorstores[department], disk[GLOBAL],
                 chunks, rebuild, io)
    IN  /\ department_vectorstores' =
               [department_vectorstores EXCEPT ![department] = r.mem]
        /\ dept_keys' = IF r.mem.built THEN WithKey(dept_keys, department) ELSE dept_keys
        /\ disk' = [disk EXCEPT ![GLOBAL] = r.file]
        /\ result' = [OpResult("initialize", department) EXCEPT !.ok = r.ok]
        /\ UNCHANGED <<use_mmr, vectorstore, rq>>

\* initialize_department_vectorstore called by a client
InitializeDepartmentVectorstore(department, chunks, rebuild, io) ==
    LET r == initialize_department_vectorstore(department,
                 department_vectorstores[department], disk[department],
                 chunks, rebuild, io)
    IN  /\ department_vectorstores' =
               [department_vectorstores EXCEPT ![department] = r.mem]
        /\ dept_keys' = IF r.mem.built THEN WithKey(dept_keys, department) ELSE dept_keys
        /\ disk' = [disk EXCEPT ![department] = r.file]
        /\ result' = [OpResult("initialize", department) EXCEPT !.ok = r.ok]
        /\ UNCHANGED <<use_mmr, vectorstore, rq>>

\* add_documents called by a client
AddDocuments(chunks, io) ==
    LET r == add_documents(vectorstore, disk[GLOBAL], chunks, io)
    IN  /\ Fits(vectorstore, chunks)
        /\ vectorstore' = r.mem
        /\ disk' = [disk EXCEPT ![GLOBAL] = r.file]
        /\ result' = [OpResult("add", GLOBAL) EXCEPT !.ok = r.ok]
        /\ UNCHANGED <<use_mmr, department_vectorstores, dept_keys, rq>>

\* add_documents_to_department called by a client
AddDocumentsToDepartment(department, chunks, io) ==
    LET r == add_documents_to_department(department,
                 department_vectorstores[department], disk[department], chunks, io)
    IN  /\ Fits(department_vectorstores[department], DeptChunks(chunks, department))
        /\ department_vectorstores' =
               [department_vectorstores EXCEPT ![department] = r.mem]
        /\ dept_keys' = IF r.mem.built THEN WithKey(dept_keys, department) ELSE dept_keys
        /\ disk' = [disk EXCEPT ![department] = r.file]
        /\ result' = [OpResult("add", department) EXCEPT !.ok = r.ok]
        /\ UNCHANGED <<use_mmr, vectorstore, rq>>

\* VectorStore.similarity_search(query, k) on the store vs
similarity_search(vs, q, k, oc) ==
    IF ~vs.built THEN NoSearch
    ELSE SearchIndex(use_mmr, vs.docs, q, EffectiveK(k), NoDept, oc)

\* a department search that falls back to the global index when the
\* department has none
search_department_Global(dvs, q, department, k, oc) ==
    IF dvs[department].built
    THEN SearchIndex(use_mmr, dvs[department].docs, q, EffectiveK(k), department, oc)
    ELSE IF vectorstore.built
    THEN SearchIndex(use_mmr, vectorstore.docs, q, EffectiveK(k), department, oc)
    ELSE NoSearch

\* VectorStore.search_department(query, department, k) on the stores dvs
search_department(dvs, q, department, k, oc) ==
    IF ~dvs[department].built THEN NoSearch
    ELSE SearchIndex(use_mmr, dvs[department].docs, q, EffectiveK(k), department, oc)

\* the store after a request that returned r: its documents carry the
\* metadata the request wrote
After(vs, r) == IF vs.built THEN Index(r.D) ELSE vs

\* similarity_search called by a client
SimilaritySearch(q, k, oc) ==
    \E r \in {similarity_search(vectorstore, q, k, oc)} :
        /\ vectorstore' = After(vectorstore, r)
        /\ result' = SearchResult("similarity_search", GLOBAL, q, k, r,
                                  IF vectorstore.built THEN oc ELSE NoOutcome)
        /\ UNCHANGED <<use_mmr, department_vectorstores, dept_keys, disk, rq, hist>>

\* search_department called by a client
SearchDepartment(q, department, k, oc) ==
    \E r \in {search_department(department_vectorstores, q, department, k, oc)} :
        /\ department_vectorstores' =
               [department_vectorstores EXCEPT ![department] = After(@, r)]
        /\ result' = SearchResult("search_department", department, q, k, r,
                                  IF department_vectorstores[department].built
                                  THEN oc ELSE NoOutcome)
        /\ UNCHANGED <<use_mmr, vectorstore, dept_keys, disk, rq, hist>>

(***************************************************************************)
(* Fusion: search_across_departments.                                      *)
(***************************************************************************)
\* the departments argument; the empty list stands for None as well, the
\* code tests both with "not departments"
DepartmentLists == SeqsUpTo(Departments, Cardinality(Departments))

\* self._cosine_similarity of the query embedding and a text's embedding, in
\* hundredths
cosine_similarity(q, d) == IF Dist(q, d) < 0 THEN 100 + Dist(q, d) ELSE 100 - Dist(q, d)

\* self._compute_relevance(doc.page_content, query_embedding); embedOk tells
\* whether embedding the text succeeds
compute_relevance(q, d, embedOk) ==
    IF embedOk THEN cosine_similarity(q, d) ELSE ScoreFallback

\* the document a result entry refers to, in the stores dvs
DocOf(dvs, ref) == dvs[ref.src].docs[ref.pos]

\* the references to the documents a department search returned
Refs(department, hits) == [i \in 1..Len(hits) |-> [src |-> department, pos |-> hits[i]]]

\* for doc in dept_results: doc.metadata['department'] = department
SetDepartment(D, hits, department) == Annotate(D, hits, NoScore, department, FALSE)

RECURSIVE ScanDepartments_Abort(_, _, _, _, _, _)
\* a loop that ends at the first department whose searches raise
ScanDepartments_Abort(dvs, departments, q, k, ocs, acc) ==
    IF departments = <<>> \/ ocs[Head(departments)].mmr = "raise"
    THEN [dvs |-> dvs, all_results |-> acc.all_results, scanned |-> acc.scanned]
    ELSE IF ~dvs[Head(departments)].built
    THEN ScanDepartments_Abort(dvs, Tail(departments), q, k, ocs, acc)
    ELSE Bind(search_department(dvs, q, Head(departments), k, ocs[Head(departments)]),
              LAMBDA r : ScanDepartments_Abort(
                  [dvs EXCEPT ![Head(departments)] =
                      Index(SetDepartment(r.D, r.hits, Head(departments)))],
                  Tail(departments), q, k, ocs,
                  [all_results |-> acc.all_results \o Refs(Head(departments), r.hits),
                   scanned |-> Append(acc.scanned, Head(departments))]))

RECURSIVE ScanDepartments(_, _, _, _, _, _)
\* the for loop over departments: dvs are the department stores, acc the
\* references collected (all_results) and the departments searched so far
ScanDepartments(dvs, departments, q, k, ocs, acc) ==
    IF departments = <<>> THEN [dvs |-> dvs, all_results |-> acc.all_results,
                                scanned |-> acc.scanned]
    ELSE IF ~dvs[Head(departments)].built
    THEN ScanDepartments(dvs, Tail(departments), q, k, ocs, acc)
    ELSE Bind(search_department(dvs, q, Head(departments), k, ocs[Head(departments)]),
              LAMBDA r : ScanDepartments(
                  [dvs EXCEPT ![Head(departments)] =
                      Index(SetDepartment(r.D, r.hits, Head(departments)))],
                  Tail(departments), q, k, ocs,
                  [all_results |-> acc.all_results \o Refs(Head(departments), r.hits),
                   scanned |-> Append(acc.scanned, Head(departments))]))

\* the loop that gives a relevance_score to the merged documents without one
FillScores(dvs, all_results, q, embedQuery, embedText) ==
    [d \in Departments |->
        [dvs[d] EXCEPT !.docs =
            [p \in 1..Len(dvs[d].docs) |->
                IF /\ \E i \in 1..Len(all_results) : all_results[i] = [src |-> d, pos |-> p]
                   /\ dvs[d].docs[p].relevance_score = NoScore
                THEN [dvs[d].docs[p] EXCEPT !.relevance_score =
                         IF embedQuery THEN compute_relevance(q, dvs[d].docs[p], embedText)
                         ELSE ScoreFallback]
                ELSE dvs[d].docs[p]]]]

\* one step of sorted(..., reverse=True): ref goes after the entries whose
\* score is not below its own
InsertDesc(dvs, sorted, ref) ==
    LET above == {i \in 1..Len(sorted) :
                     DocOf(dvs, sorted[i]).relevance_score >= DocOf(dvs, ref).relevance_score}
        n == Cardinality(above)
    IN  SubSeq(sorted, 1, n) \o <<ref>> \o SubSeq(sorted, n + 1, Len(sorted))

RECURSIVE SortedByScore(_, _)
\* sorted(all_results, key=relevance_score, reverse=True): stable
SortedByScore(dvs, refs) ==
    IF refs = <<>> THEN <<>>
    ELSE InsertDesc(dvs, SortedByScore(dvs, SubSeq(refs, 1, Len(refs) - 1)),
                    refs[Len(refs)])

\* a truncation that drops the first entry of a result that is too long
Truncate_Tail(refs, k) ==
    IF Len(refs) <= k THEN refs ELSE SubSeq(refs, Len(refs) - k + 1, Len(refs))

\* all_results[:k]
Truncate(refs, k) == Take(refs, k)

\* the snapshots of the documents the references refer to
Snapshots(dvs, refs) ==
    [i \in 1..Len(refs) |->
        [src |-> refs[i].src, pos |-> refs[i].pos, id |-> DocOf(dvs, refs[i]).id,
         kind |-> DocOf(dvs, refs[i]).kind,
         department |-> DocOf(dvs, refs[i]).department,
         relevance_score |-> DocOf(dvs, refs[i]).relevance_score]]

\* the sort, the truncation and the return, on the stores dvs
MergeResult(k, scan, dvs) ==
    Bind(SortedByScore(dvs, scan.all_results),
         LAMBDA sorted : [path |-> "merge", vs |-> vectorstore, dvs |-> dvs,
                          docs |-> Snapshots(dvs, Truncate(sorted, k)),
                          scanned |-> scan.scanned,
                          merged |-> Snapshots(dvs, scan.all_results),
                          oc |-> NoOutcome])

\* the function after the for loop, whose outcome is scan
AfterScan(q, k, scan, embedQuery, embedText) ==
    Bind(FillScores(scan.dvs, scan.all_results, q, embedQuery, embedText),
         LAMBDA dvs : MergeResult(k, scan, dvs))

\* return self.similarity_search(query, k), when no departments are given
\* and no department index exists
GlobalSearch(q, k, oc) ==
    Bind(similarity_search(vectorstore, q, k, oc),
         LAMBDA r : [path |-> "global", vs |-> After(vectorstore, r),
                     dvs |-> department_vectorstores,
                     docs |-> Returned(GLOBAL, r.D, r.hits),
                     scanned |-> <<>>, merged |-> <<>>,
                     oc |-> IF vectorstore.built THEN oc ELSE NoOutcome])

\* VectorStore.search_across_departments(query, departments, k): ocs gives
\* the library outcomes per index, embedQuery and embedText those of the
\* embedding provider
search_across_departments(q, departments, k, ocs, embedQuery, embedText) ==
    IF departments = <<>> /\ dept_keys = <<>>
    THEN GlobalSearch(q, k, ocs[GLOBAL])
    ELSE Bind(ScanDepartments(department_vectorstores,
                  IF departments = <<>> THEN dept_keys ELSE departments,
                  q, EffectiveK(k), ocs, [all_results |-> <<>>, scanned |-> <<>>]),
              LAMBDA scan : AfterScan(q, EffectiveK(k), scan, embedQuery, embedText))

\* search_across_departments called by a client
SearchAcrossDepartments(q, departments, k, ocs, embedQuery, embedText) ==
    \E f \in {search_across_departments(q, departments, k, ocs, embedQuery, embedText)} :
        /\ vectorstore' = f.vs
        /\ department_vectorstores' = f.dvs
        /\ result' = [OpResult("search_across_departments", GLOBAL) EXCEPT
                         !.q = q, !.k = k, !.departments = departments,
                         !.docs = f.docs, !.path = f.path,
                         !.scan = f.scanned, !.merged = f.merged, !.oc = f.oc]
        /\ UNCHANGED <<use_mmr, dept_keys, disk, rq>>

NoRequest == [pc |-> "idle"]

\* the in-memory index of a name
MemOf(n) == IF n = GLOBAL THEN vectorstore ELSE department_vectorstores[n]

SingleIndexOps == {"similarity_search", "search_department"}

RetrievalOps == SingleIndexOps \cup {"search_across_departments"}

\* a retrieval request has been served
Served == result.op \in RetrievalOps

\* no index but that of name n has been built
OthersAbsent(n) == \A m \in IndexNames \ {n} : ~MemOf(m).built

(***************************************************************************)
(* Spec: the runs that build one index, by any sequence of initialize and  *)
(* add operations with any outcome of their library and file system calls, *)
(* and then serve one retrieval request on the store.                      *)
(***************************************************************************)
Init ==
    /\ StoreInit
    /\ rq = NoRequest

Next ==
    \/ \E chunks \in ChunkLists, rebuild \in BOOLEAN, io \in IOs :
           /\ ~Served /\ OthersAbsent(GLOBAL)
           /\ InitializeVectorstore(chunks, rebuild, io)
           /\ UNCHANGED hist
    \/ \E d \in Departments, chunks \in ChunkLists, rebuild \in BOOLEAN, io \in IOs :
           /\ ~Served /\ OthersAbsent(d)
           /\ InitializeDepartmentVectorstore(d, chunks, rebuild, io)
           /\ UNCHANGED hist
    \/ \E chunks \in ChunkLists, io \in IOs :
           /\ ~Served /\ OthersAbsent(GLOBAL)
           /\ AddDocuments(chunks, io)
           /\ UNCHANGED hist
    \/ \E d \in Departments, chunks \in ChunkLists, io \in IOs :
           /\ ~Served /\ OthersAbsent(d)
           /\ AddDocumentsToDepartment(d, chunks, io)
           /\ UNCHANGED hist
    \/ \E q \in Queries, k \in Budgets, oc \in Outcomes :
           /\ ~Served
           /\ SimilaritySearch(q, k, oc)
    \/ \E q \in Queries, d \in Departments, k \in Budgets, oc \in Outcomes :
           /\ ~Served
           /\ SearchDepartment(q, d, k, oc)

Spec == Init /\ [][Next]_vars

(***************************************************************************)
(* SpecFusion: the runs that build the global index or department indexes, *)
(* serve single-index requests, at most one per index that exists, while   *)
(* the embedding provider is down (which leaves an emergency               *)
(* relevance_score on the stored document it returned) and then serve one  *)
(* fusion request.                                                         *)
(***************************************************************************)
IoOk == [load |-> TRUE, build |-> TRUE, save |-> TRUE, fallback |-> TRUE]

\* the outcomes of the library calls of one index in the fusion runs: the
\* primary strategy answers, both searches return nothing, both raise, and
\* both raise with a docstore that cannot be enumerated
FusionOutcomes ==
    {NoOutcome,
     [mmr |-> "empty", plain |-> "empty", plain2 |-> "ok", enum |-> TRUE],
     [mmr |-> "raise", plain |-> "raise", plain2 |-> "ok", enum |-> TRUE],
     [mmr |-> "raise", plain |-> "raise", plain2 |-> "ok", enum |-> FALSE]}

\* the outcomes of the earlier single-index request: the embedding provider
\* is down, so both searches raise, and the docstore can be enumerated
ProviderDown == [mmr |-> "raise", plain |-> "raise", plain2 |-> "ok", enum |-> TRUE]

\* no stored document of the index carries a relevance_score
Fresh(mem) == \A p \in 1..Len(mem.docs) : mem.docs[p].relevance_score = NoScore

FusionServed == result.op = "search_across_departments"

\* the indexes a fusion request with this departments argument searches
Searched(departments) ==
    IF departments = <<>> /\ dept_keys = <<>> THEN {GLOBAL}
    ELSE {d \in Departments :
             /\ department_vectorstores[d].built
             /\ \/ departments = <<>>
                \/ \E i \in 1..Len(departments) : departments[i] = d}

\* the outcomes of the library calls of one fusion request: those of the
\* indexes it does not search are held fixed
FusionOcs(departments) ==
    {ocs \in [IndexNames -> FusionOutcomes] :
        \A n \in IndexNames \ Searched(departments) : ocs[n] = NoOutcome}

FusionNext ==
    \/ \E chunks \in FusionChunkLists :
           /\ ~FusionServed /\ ~vectorstore.built /\ dept_keys = <<>>
           /\ InitializeVectorstore(chunks, FALSE, IoOk)
           /\ UNCHANGED hist
    \/ \E d \in Departments, chunks \in FusionChunkLists :
           /\ ~FusionServed /\ ~vectorstore.built
           /\ ~department_vectorstores[d].built
           /\ InitializeDepartmentVectorstore(d, chunks, FALSE, IoOk)
           /\ UNCHANGED hist
    \/ \E q \in Queries :
           /\ ~FusionServed /\ vectorstore.built /\ Fresh(vectorstore)
           /\ SimilaritySearch(q, 1, ProviderDown)
    \/ \E q \in Queries, d \in Departments :
           /\ ~FusionServed
           /\ Fresh(department_vectorstores[d])
           /\ SearchDepartment(q, d, 1, ProviderDown)
    \/ \E departments \in DepartmentLists :
           \E q \in Queries, k \in Budgets, ocs \in FusionOcs(departments),
              embedOk \in BOOLEAN :
               /\ ~FusionServed
               /\ SearchAcrossDepartments(q, departments, k, ocs, embedOk, embedOk)
               /\ UNCHANGED hist

SpecFusion == Init /\ [][FusionNext]_vars

(***************************************************************************)
(* SpecLifecycle: the runs of Spec with the history of the lifecycle        *)
(* operations kept in hist, and a retrieval request that is served with    *)
(* the default budget while the library answers or the embedding provider  *)
(* is down.                                                                *)
(***************************************************************************)
LifecycleOutcomes == {NoOutcome, ProviderDown}

LifecycleNext ==
    \/ \E chunks \in ChunkLists, rebuild \in BOOLEAN, io \in IOs :
           /\ ~Served /\ OthersAbsent(GLOBAL)
           /\ InitializeVectorstore(chunks, rebuild, io)
           /\ hist' = Recorded("initialize", GLOBAL, vectorstore, chunks, rebuild,
                               initialize_vectorstore(vectorstore, disk[GLOBAL],
                                                      chunks, rebuild, io))
    \/ \E d \in Departments, chunks \in ChunkLists, rebuild \in BOOLEAN, io \in IOs :
           /\ ~Served /\ OthersAbsent(d)
           /\ InitializeDepartmentVectorstore(d, chunks, rebuild, io)
           /\ hist' = Recorded("initialize", d, department_vectorstores[d], chunks,
                               rebuild,
                               initialize_department_vectorstore(d,
                                   department_vectorstores[d], disk[d], chunks,
                                   rebuild, io))
    \/ \E chunks \in ChunkLists, io \in IOs :
           /\ ~Served /\ OthersAbsent(GLOBAL)
           /\ AddDocuments(chunks, io)
           /\ hist' = Recorded("add", GLOBAL, vectorstore, chunks, FALSE,
                               add_documents(vectorstore, disk[GLOBAL], chunks, io))
    \/ \E d \in Departments, chunks \in ChunkLists, io \in IOs :
           /\ ~Served /\ OthersAbsent(d)
           /\ AddDocumentsToDepartment(d, chunks, io)
           /\ hist' = Recorded("add", d, department_vectorstores[d], chunks, FALSE,
                               add_documents_to_department(d,
                                   department_vectorstores[d], disk[d], chunks, io))
    \/ \E q \in Queries, oc \in LifecycleOutcomes :
           /\ ~Served
           /\ SimilaritySearch(q, 0, oc)
    \/ \E q \in Queries, d \in Departments, oc \in LifecycleOutcomes :
           /\ ~Served
           /\ SearchDepartment(q, d, 0, oc)

SpecLifecycle == Init /\ [][LifecycleNext]_vars

(***************************************************************************)
(* VectorStore.evaluate_context_relevance, called by the query endpoint on *)
(* the documents a retrieval returned.  Scores are in hundredths.          *)
(***************************************************************************)
\* threshold: float = 0.3, the default of the parameter
DefaultThreshold == 30

\* config.get("relevance_threshold", 0.7), what the query endpoint passes
EndpointThreshold == 70

\* doc.metadata['relevance_score'] = 0.7 for a document without a score
EvaluateDefault == 70

Thresholds == {DefaultThreshold, EndpointThreshold}

\* the loop that gives a score to the documents without one, on the
\* returned documents
EvaluateFill(docs) ==
    [i \in 1..Len(docs) |->
        IF docs[i].relevance_score = NoScore
        THEN [docs[i] EXCEPT !.relevance_score = EvaluateDefault]
        ELSE docs[i]]

\* the same loop, seen from the index of name n that stores the documents
EvaluateFillStored(n, mem, docs) ==
    [mem EXCEPT !.docs =
        [p \in 1..Len(mem.docs) |->
            IF \E i \in 1..Len(docs) :
                   /\ docs[i].src = n /\ docs[i].pos = p
                   /\ docs[i].relevance_score = NoScore
            THEN [mem.docs[p] EXCEPT !.relevance_score = EvaluateDefault]
            ELSE mem.docs[p]]]

\* max([doc.metadata.get('relevance_score', 0.7) for doc in docs])
MaxSimilarity(docs) ==
    CHOOSE x \in {docs[i].relevance_score : i \in 1..Len(docs)} :
        \A i \in 1..Len(docs) : docs[i].relevance_score <= x

\* VectorStore.evaluate_context_relevance(query, docs, threshold): the
\* returned tuple; has_relevant_context = True whenever docs exist
evaluate_context_relevance(docs, threshold) ==
    IF docs = <<>> THEN [max_similarity |-> 0, has_relevant_context |-> FALSE]
    ELSE [max_similarity |-> MaxSimilarity(EvaluateFill(docs)),
          has_relevant_context |-> TRUE]

\* evaluate_context_relevance called by the query endpoint on the documents
\* of the retrieval before it
EvaluateContextRelevance(threshold) ==
    /\ Served
    /\ \E e \in {evaluate_context_relevance(result.docs, threshold)} :
           result' = [result EXCEPT
                         !.op = "evaluate_context_relevance",
                         !.docs = EvaluateFill(result.docs),
                         !.threshold = threshold,
                         !.max_similarity = e.max_similarity,
                         !.has_relevant_context = e.has_relevant_context]
    /\ vectorstore' = EvaluateFillStored(GLOBAL, vectorstore, result.docs)
    /\ department_vectorstores' =
           [d \in Departments |->
               EvaluateFillStored(d, department_vectorstores[d], result.docs)]
    /\ UNCHANGED <<use_mmr, dept_keys, disk, rq, hist>>

(***************************************************************************)
(* SpecEvaluate: the runs of the query endpoint on a store with a global   *)
(* index or one department index: build the index, retrieve, evaluate.     *)
(***************************************************************************)
Evaluated == result.op = "evaluate_context_relevance"

EvaluateNext ==
    \/ \E chunks \in ChunkLists :
           /\ result.op = "none"
           /\ InitializeVectorstore(chunks, FALSE, IoOk)
           /\ UNCHANGED hist
    \/ \E d \in Departments, chunks \in ChunkLists :
           /\ result.op = "none"
           /\ InitializeDepartmentVectorstore(d, chunks, FALSE, IoOk)
           /\ UNCHANGED hist
    \/ \E q \in Queries, k \in Budgets, oc \in FusionOutcomes :
           /\ ~Served /\ ~Evaluated
           /\ SimilaritySearch(q, k, oc)
    \/ \E q \in Queries, d \in Departments, k \in Budgets :
           \E ocs \in FusionOcs(<<d>>), embedOk \in BOOLEAN :
               /\ ~Served /\ ~Evaluated
               /\ SearchAcrossDepartments(q, <<d>>, k, ocs, embedOk, embedOk)
               /\ UNCHANGED hist
    \/ \E threshold \in Thresholds :
           EvaluateContextRelevance(threshold)

SpecEvaluate == Init /\ [][EvaluateNext]_vars

(***************************************************************************)
(* The context window refiner: DocumentProcessor.enhanced_context_window.  *)
(* A text is a sequence of tokens: words, and runs of whitespace.          *)
(***************************************************************************)
\* longest chunk, in sentences
MaxSent == 11

\* largest window half-width
MaxW == 2

\* the word number t, ending in a full stop or not, in capitals or not
Word(t, p, up) == [ws |-> 0, t |-> t, p |-> p, up |-> up]

\* a run of n whitespace characters
Space(n) == [ws |-> n, t |-> 0, p |-> FALSE, up |-> FALSE]

IsSpace(tok) == tok.ws > 0

\* str.lower() of one token
Lower(tok) == [tok EXCEPT !.up = FALSE]

RECURSIVE SplitFrom(_, _, _, _)
\* re.split(r'(?<=[.!?])\s+', text) from token i on: cur is the piece being
\* read, out the pieces read; a whitespace run that follows a word ending
\* in punctuation is a separator
SplitFrom(text, i, cur, out) ==
    IF i > Len(text) THEN Append(out, cur)
    ELSE IF IsSpace(text[i]) /\ i > 1 /\ ~IsSpace(text[i - 1]) /\ text[i - 1].p
    THEN SplitFrom(text, i + 1, <<>>, Append(out, cur))
    ELSE SplitFrom(text, i + 1, Append(cur, text[i]), out)

\* re.split(r'(?<=[.!?])\s+', doc.page_content)
Split(text) == SplitFrom(text, 1, <<>>, <<>>)

\* set(text.lower().split())
Terms(text) == {Lower(text[i]) : i \in {j \in 1..Len(text) : ~IsSpace(text[j])}}

RECURSIVE Join(_)
\* " ".join(pieces)
Join(pieces) ==
    IF pieces = <<>> THEN <<>>
    ELSE IF Len(pieces) = 1 THEN pieces[1]
    ELSE pieces[1] \o <<Space(1)>> \o Join(Tail(pieces))

\* the metadata keys the refiner reads or writes
WindowKeys ==
    {"window_start", "window_end", "central_sentence", "sentence_relevance", "window_type"}

\* a metadata dict: its keys, and the values of the keys it has
Metadata(keys, error, score) ==
    [keys |-> keys, error |-> error, relevance_score |-> score,
     window_start |-> 0, window_end |-> 0, central_sentence |-> 0,
     sentence_relevance |-> [num |-> 0, den |-> 1], window_type |-> "none"]

\* a Document handed to the refiner
Document(content, metadata) == [content |-> content, metadata |-> metadata]

\* an element of the returned list: the input object itself, or a new Document
SameObject(doc) == [same |-> TRUE, content |-> doc.content, metadata |-> doc.metadata]

NewDocument(content, metadata) == [same |-> FALSE, content |-> content, metadata |-> metadata]

\* doc.metadata.get('error', False)
ErrorFlagged(doc) == "error" \in doc.metadata.keys /\ doc.metadata.error

\* a pass-through test that lets a chunk of exactly 2w sentences be windowed
TooShort_Strict(sentences, window_size) == Len(sentences) < window_size * 2

\* not sentences or len(sentences) <= window_size * 2
TooShort(sentences, window_size) ==
    Len(sentences) = 0 \/ Len(sentences) <= window_size * 2

\* len(common_terms) of one sentence: the numerator of its score
Overlap(query, sentence) == Cardinality(Terms(query) \cap Terms(sentence))

\* max(len(query_terms), 1): the denominator of every score
ScoreDen(query) == Max(Cardinality(Terms(query)), 1)

\* the scores list, as numerators
Scores(query, sentences) == [i \in 1..Len(sentences) |-> Overlap(query, sentences[i])]

\* max(scores)
MaxScore(scores) == CHOOSE x \in {scores[i] : i \in 1..Len(scores)} :
                        \A i \in 1..Len(scores) : scores[i] <= x

\* the sentences kept by a prefix window
PrefixLen == 10

\* max(scores) < 0.1 and len(sentences) > 10
NoGoodMatch(query, sentences, scores) ==
    MaxScore(scores) * 10 < ScoreDen(query) /\ Len(sentences) > PrefixLen

\* the index of the last sentence of maximal score, counted from 0
MostRelevantIdx_Last(scores) ==
    (CHOOSE i \in 1..Len(scores) :
        /\ scores[i] = MaxScore(scores)
        /\ \A j \in (i + 1)..Len(scores) : scores[j] # MaxScore(scores)) - 1

\* scores.index(max(scores)), counted from 0
MostRelevantIdx(scores) ==
    (CHOOSE i \in 1..Len(scores) :
        /\ scores[i] = MaxScore(scores)
        /\ \A j \in 1..(i - 1) : scores[j] # MaxScore(scores)) - 1

\* a prefix window that keeps every sentence of the chunk
PrefixWindow_Whole(doc, sentences) ==
    NewDocument(Join(sentences),
                [doc.metadata EXCEPT !.keys = @ \cup {"window_type"},
                                     !.window_type = "prefix"])

\* the new Document of the prefix window
PrefixWindow(doc, sentences) ==
    NewDocument(Join(Take(sentences, PrefixLen)),
                [doc.metadata EXCEPT !.keys = @ \cup {"window_type"},
                                     !.window_type = "prefix"])

\* the new Document of the context window around the most relevant sentence
ContextWindow(doc, query, sentences, scores, window_size) ==
    LET most_relevant_idx == MostRelevantIdx(scores)
        start_idx == Max(0, most_relevant_idx - window_size)
        end_idx == Min(Len(sentences), most_relevant_idx + window_size + 1)
    IN  NewDocument(Join(SubSeq(sentences, start_idx + 1, end_idx)),
                    [doc.metadata EXCEPT
                        !.keys = @ \cup WindowKeys,
                        !.window_start = start_idx,
                        !.window_end = end_idx,
                        !.central_sentence = most_relevant_idx,
                        !.sentence_relevance =
                            [num |-> scores[most_relevant_idx + 1],
                             den |-> ScoreDen(query)],
                        !.window_type = "context"])

\* the body of the for loop, for one document
EnhanceOne(doc, query, window_size) ==
    LET sentences == Split(doc.content)
        scores == Scores(query, sentences)
    IN  IF ErrorFlagged(doc) THEN SameObject(doc)
        ELSE IF TooShort(sentences, window_size) THEN SameObject(doc)
        ELSE IF NoGoodMatch(query, sentences, scores) THEN PrefixWindow(doc, sentences)
        ELSE ContextWindow(doc, query, sentences, scores, window_size)

\* DocumentProcessor.enhanced_context_window(docs, query, window_size)
enhanced_context_window(docs, query, window_size) ==
    [i \in 1..Len(docs) |-> EnhanceOne(docs[i], query, window_size)]

\* an input document that shares its metadata dict with the output document
InputAfter_Aliased(doc, out) == Document(doc.content, out.metadata)

\* an input document once the loop body has built out from it: the window
\* annotations are written to new_doc.metadata, a copy of doc.metadata
InputAfter(doc, out) == doc

\* the input list once enhanced_context_window has returned out
InputsAfter(docs, out) == [i \in 1..Len(docs) |-> InputAfter(docs[i], out[i])]

(***************************************************************************)
(* SpecRefiner: one call of enhanced_context_window on a list of at most   *)
(* two documents.                                                          *)
(***************************************************************************)
\* the word "key"
Key == Word(0, FALSE, FALSE)

\* the sentence "Si.", or "key Si." if withKey
Sentence(i, withKey) ==
    IF withKey THEN <<Key, Space(1), Word(i, TRUE, TRUE)>> ELSE <<Word(i, TRUE, TRUE)>>

RECURSIVE SentencesUpTo(_, _, _)
\* the text of the sentences S1. .. Sn., the one at keyAt with the word key,
\* separated by whitespace runs of sep characters
SentencesUpTo(n, keyAt, sep) ==
    IF n = 0 THEN <<>>
    ELSE IF n = 1 THEN Sentence(1, keyAt = 1)
    ELSE SentencesUpTo(n - 1, keyAt, sep) \o <<Space(sep)>> \o Sentence(n, keyAt = n)

\* a chunk content: n sentences, with trailing whitespace if trail
Content(n, keyAt, sep, trail) ==
    SentencesUpTo(n, keyAt, sep) \o (IF trail /\ n > 0 THEN <<Space(1)>> ELSE <<>>)

\* the metadata of the chunks handed to the refiner: none, an error flag, a
\* relevance score
InputMetadata ==
    {Metadata({}, FALSE, NoScore),
     Metadata({"error"}, TRUE, NoScore),
     Metadata({"relevance_score"}, FALSE, ScoreSearch)}

\* the words of the queries: key, s2., s5., S5. and s5
QueryWords ==
    {Key, Word(2, TRUE, FALSE), Word(5, TRUE, FALSE), Word(5, TRUE, TRUE),
     Word(5, FALSE, FALSE)}

\* the query text of a list of words
QueryText(words) == Join([i \in 1..Len(words) |-> <<words[i]>>])

\* the queries: at most two words
RefinerQueries == {QueryText(ws) : ws \in SeqsUpTo(QueryWords, 2)}

\* the chunks handed to the refiner
RefinerDocs ==
    {Document(Content(n, keyAt, sep, trail), md) :
        n \in 0..MaxSent, keyAt \in 0..MaxSent, sep \in {1, 2},
        trail \in BOOLEAN, md \in InputMetadata}

\* a window half-width of more than half the longest chunk
WideW == 6

\* the window half-widths of the requests
WindowSizes == 0..MaxW \cup {WideW}

\* the chunks of the lists of two: three sentences or the longest chunk, the
\* word key in the second sentence or nowhere
PairDocs ==
    {Document(Content(n, keyAt, 1, FALSE), md) :
        n \in {3, MaxSent}, keyAt \in {0, 2}, md \in InputMetadata}

\* the lists handed to the refiner
RefinerLists ==
    {<<>>} \cup {<<d>> : d \in RefinerDocs} \cup {<<d, e>> : d \in PairDocs, e \in PairDocs}

RefinerInit ==
    /\ use_mmr = TRUE
    /\ vectorstore = NoIndex
    /\ department_vectorstores = [d \in Departments |-> NoIndex]
    /\ dept_keys = <<>>
    /\ disk = [n \in IndexNames |-> NoFile]
    /\ result = OpResult("none", GLOBAL)
    /\ hist = NoHist
    /\ rq \in {[pc |-> "in", given |-> docs, docs |-> docs, query |-> query,
                window_size |-> w, out |-> <<>>] :
                  docs \in RefinerLists,
                  query \in RefinerQueries, w \in WindowSizes}

\* the call of enhanced_context_window: given is the list as it was handed
\* over, docs the same Document objects as they are now
Refine ==
    /\ rq.pc = "in"
    /\ \E out \in {enhanced_context_window(rq.docs, rq.query, rq.window_size)} :
           rq' = [rq EXCEPT !.pc = "done",
                            !.out = out,
                            !.docs = InputsAfter(rq.docs, out)]
    /\ UNCHANGED <<use_mmr, vectorstore, department_vectorstores, dept_keys, disk, result,
                   hist>>

RefinerNext == Refine

SpecRefiner == RefinerInit /\ [][RefinerNext]_vars

(***************************************************************************)
(* SpecRefineTwice: the refiner applied to one chunk, and then again, with *)
(* the same query and window size, to the list it returned.                *)
(***************************************************************************)
\* the returned list as a list of Documents
AsDocuments(out) == [i \in 1..Len(out) |-> Document(out[i].content, out[i].metadata)]

RefineTwiceInit ==
    /\ RefinerInit
    /\ Len(rq.docs) = 1

\* the second call: given is now the list the first call returned, out the
\* list the second call returns
RefineAgain ==
    /\ rq.pc = "done"
    /\ \E out \in {enhanced_context_window(AsDocuments(rq.out), rq.query,
                                           rq.window_size)} :
           rq' = [rq EXCEPT !.pc = "again",
                            !.given = AsDocuments(rq.out),
                            !.out = out,
                            !.docs = InputsAfter(AsDocuments(rq.out), out)]
    /\ UNCHANGED <<use_mmr, vectorstore, department_vectorstores, dept_keys, disk, result,
                   hist>>

RefineTwiceNext ==
    \/ Refine
    \/ RefineAgain

SpecRefineTwice == RefineTwiceInit /\ [][RefineTwiceNext]_vars

(***************************************************************************)
(* The rate limiter (src/api/rate_limiter.py).  self.requests maps a       *)
(* client to its endpoints and an endpoint to (count, start_time).  The    *)
(* clock is time.time(), in whole seconds.  dispatch runs on the event     *)
(* loop and _allow_request does not await: a request is one step.  The     *)
(* log of the admitted requests is kept beside the table.                  *)
(***************************************************************************)
\* self.limit
limit == 2

\* self.window, in seconds
window == 1

\* the clock does not run past MaxTime, and at most MaxRequests are sent
MaxTime == 4

MaxRequests == 4

Clients == {"api_key:k", "ip:h"}

Endpoints == {"GET /query", "POST /upload"}

\* the endpoint is no key of the client's dict
NoEntry == [present |-> FALSE, count |-> 0, start_time |-> 0]

Entry(count, start_time) == [present |-> TRUE, count |-> count, start_time |-> start_time]

\* an entry whose window ends when another second has passed
Expired_Early(entry, current_time) == current_time - entry.start_time >= window

\* current_time - start_time > self.window
Expired(entry, current_time) == current_time - entry.start_time > window

\* RateLimiter._cleanup: expired entries go, and clients left without entry
cleanup(requests, current_time) ==
    Bind([c \in Clients |->
             [e \in Endpoints |->
                 IF requests.data[c][e].present /\ Expired(requests.data[c][e], current_time)
                 THEN NoEntry ELSE requests.data[c][e]]],
         LAMBDA data :
             [clients |-> {c \in requests.clients :
                              \E e \in Endpoints : data[c][e].present},
              data |-> data])

\* client_data[endpoint] = entry, in the dict of a client that is a key
SetEntry(requests, client_id, endpoint, entry) ==
    [clients |-> requests.clients \cup {client_id},
     data |-> [requests.data EXCEPT ![client_id][endpoint] = entry]]

\* client_data.get(endpoint, (0, current_time))
GetEntry(requests, client_id, endpoint, current_time) ==
    IF requests.data[client_id][endpoint].present
    THEN requests.data[client_id][endpoint]
    ELSE Entry(0, current_time)

\* the function after _cleanup, on the cleaned table
AfterCleanup(requests, client_id, endpoint, current_time) ==
    Bind(GetEntry(requests, client_id, endpoint, current_time),
         LAMBDA got :
             IF Expired(got, current_time)
             THEN [allowed |-> TRUE,
                   requests |-> SetEntry(requests, client_id, endpoint,
                                         Entry(1, current_time))]
             ELSE IF got.count >= limit
             THEN [allowed |-> FALSE,
                   requests |-> [requests EXCEPT !.clients = @ \cup {client_id}]]
             ELSE [allowed |-> TRUE,
                   requests |-> SetEntry(requests, client_id, endpoint,
                                         Entry(got.count + 1, got.start_time))])

\* RateLimiter._allow_request(client_id, endpoint) at current_time
allow_request(requests, client_id, endpoint, current_time) ==
    AfterCleanup(cleanup(requests, current_time), client_id, endpoint, current_time)

requests == rq.requests

\* no request has been served yet
NoLast ==
    [client |-> "none", endpoint |-> "none", allowed |-> TRUE, time |-> 0,
     before |-> NoEntry]

LimiterInit ==
    /\ use_mmr = TRUE
    /\ vectorstore = NoIndex
    /\ department_vectorstores = [d \in Departments |-> NoIndex]
    /\ dept_keys = <<>>
    /\ disk = [n \in IndexNames |-> NoFile]
    /\ result = OpResult("none", GLOBAL)
    /\ hist = NoHist
    /\ rq = [requests |-> [clients |-> {},
                           data |-> [c \in Clients |-> [e \in Endpoints |-> NoEntry]]],
             now |-> 0, sent |-> 0, log |-> <<>>, last |-> NoLast]

\* RateLimiter.dispatch for a request of client_id to endpoint: answered
\* with 429 when it is not allowed, passed on otherwise
Dispatch(client_id, endpoint) ==
    /\ rq.sent < MaxRequests
    /\ \E r \in {allow_request(requests, client_id, endpoint, rq.now)} :
           rq' = [rq EXCEPT
                     !.requests = r.requests,
                     !.sent = @ + 1,
                     !.log = IF r.allowed
                             THEN Append(@, [client |-> client_id, endpoint |-> endpoint,
                                             time |-> rq.now])
                             ELSE @,
                     !.last = [client |-> client_id, endpoint |-> endpoint,
                               allowed |-> r.allowed, time |-> rq.now,
                               before |-> requests.data[client_id][endpoint]]]
    /\ UNCHANGED <<use_mmr, vectorstore, department_vectorstores, dept_keys, disk, result,
                   hist>>

\* a second passes
Tick ==
    /\ rq.now < MaxTime
    /\ rq' = [rq EXCEPT !.now = @ + 1]
    /\ UNCHANGED <<use_mmr, vectorstore, department_vectorstores, dept_keys, disk, result,
                   hist>>

LimiterNext ==
    \/ \E client_id \in Clients, endpoint \in Endpoints : Dispatch(client_id, endpoint)
    \/ Tick

SpecLimiter == LimiterInit /\ [][LimiterNext]_vars

(***************************************************************************)
(* The file watcher (src/core/file_watcher.py).  The observer thread       *)
(* delivers the create and modify events; every accepted event starts a    *)
(* threading.Timer, and process_file runs on the thread of its timer when  *)
(* the delay has passed.  A run enters the try block, calls the callbacks  *)
(* (the ingestion of the file, which takes its time) and discards the path *)
(* in its finally clause.  Nothing orders the threads.                     *)
(***************************************************************************)
\* at most MaxEvents file system events are delivered
MaxEvents == 4

\* files with a supported extension below the data folder
Paths == {"a/x.pdf", "y.txt"}

processing_queue == rq.processing_queue

WatcherInit ==
    /\ use_mmr = TRUE
    /\ vectorstore = NoIndex
    /\ department_vectorstores = [d \in Departments |-> NoIndex]
    /\ dept_keys = <<>>
    /\ disk = [n \in IndexNames |-> NoFile]
    /\ result = OpResult("none", GLOBAL)
    /\ hist = NoHist
    /\ rq = [processing_queue |-> {},
             timers |-> [p \in Paths |-> 0],
             running |-> [p \in Paths |-> 0],
             handled |-> [p \in Paths |-> 0],
             events |-> 0]

\* processing_queue.add(file_path); Timer(delay, process_file, [file_path]).start();
\* handled counts the callback runs since the path entered the queue
Enqueue(file_path) ==
    rq' = [rq EXCEPT
              !.processing_queue = @ \cup {file_path},
              !.timers[file_path] = @ + 1,
              !.handled[file_path] = IF file_path \in processing_queue THEN @ ELSE 0,
              !.events = @ + 1]

\* NewFileHandler.on_created for a file with a supported extension
on_created(file_path) ==
    /\ rq.events < MaxEvents
    /\ Enqueue(file_path)
    /\ UNCHANGED <<use_mmr, vectorstore, department_vectorstores, dept_keys, disk, result,
                   hist>>

\* NewFileHandler.on_modified: only for a file that is not in the queue
on_modified(file_path) ==
    /\ rq.events < MaxEvents
    /\ IF file_path \notin processing_queue
       THEN Enqueue(file_path)
       ELSE rq' = [rq EXCEPT !.events = @ + 1]
    /\ UNCHANGED <<use_mmr, vectorstore, department_vectorstores, dept_keys, disk, result,
                   hist>>

\* a timer of the path expires and process_file starts: it returns at once
\* if the path is not in the queue, and enters the try block otherwise
process_file(file_path) ==
    /\ rq.timers[file_path] > 0
    /\ rq' = [rq EXCEPT
                 !.timers[file_path] = @ - 1,
                 !.running[file_path] = IF file_path \in processing_queue
                                        THEN @ + 1 ELSE @]
    /\ UNCHANGED <<use_mmr, vectorstore, department_vectorstores, dept_keys, disk, result,
                   hist>>

\* the callbacks of a run have been called, each raising or not (what a
\* callback raises is caught and logged), and the finally clause discards
\* the path
EndOfRun(file_path, raised) ==
    /\ rq.running[file_path] > 0
    /\ rq' = [rq EXCEPT
                 !.running[file_path] = @ - 1,
                 !.handled[file_path] = @ + 1,
                 !.processing_queue = @ \ {file_path}]
    /\ UNCHANGED <<use_mmr, vectorstore, department_vectorstores, dept_keys, disk, result,
                   hist>>

WatcherNext ==
    \/ \E file_path \in Paths : on_created(file_path)
    \/ \E file_path \in Paths : on_modified(file_path)
    \/ \E file_path \in Paths : process_file(file_path)
    \/ \E file_path \in Paths, raised \in BOOLEAN : EndOfRun(file_path, raised)

SpecWatcher == WatcherInit /\ [][WatcherNext]_vars

(***************************************************************************)
(* SpecConcurrent: the writers and the reader of a running service.  The   *)
(* store is the one startup leaves: every index built and saved.  The      *)
(* upload background task and the rebuild task run on the worker threads   *)
(* of the server, the file watcher's callback on a Timer thread, a query   *)
(* on the event loop.  No handler takes a lock, so the library calls of    *)
(* the threads interleave freely: a write is the call that changes the     *)
(* in-memory index followed by save_local, a traversal is one search call. *)
(***************************************************************************)
Writers == {"process_document", "process_new_document", "rebuild_task"}

\* the store after startup_event on an empty index directory
Started(n) ==
    IF n = GLOBAL THEN initialize_vectorstore(NoIndex, NoFile, <<>>, FALSE, IoOk)
    ELSE initialize_department_vectorstore(n, NoIndex, NoFile, <<>>, FALSE, IoOk)

Write(op, target, chunks) == [op |-> op, target |-> target, chunks |-> chunks]

\* the writes of process_document and of process_new_document for a
\* document split into chunks, all of one department
IngestWrites(chunks, department) ==
    <<Write("add", GLOBAL, chunks), Write("add", department, chunks)>>

\* the writes of rebuild_task for the chunks of all documents
RebuildWrites(chunks) ==
    <<Write("initialize", GLOBAL, chunks), Write("initialize", "a", chunks),
      Write("initialize", "b", chunks)>>

\* the handler of a write, with every library call answering
Handled(w) ==
    IF w.op = "add"
    THEN IF w.target = GLOBAL
         THEN add_documents(MemOf(w.target), disk[w.target], w.chunks, IoOk)
         ELSE add_documents_to_department(w.target, MemOf(w.target), disk[w.target],
                                          w.chunks, IoOk)
    ELSE IF w.target = GLOBAL
         THEN initialize_vectorstore(MemOf(w.target), disk[w.target], w.chunks, TRUE, IoOk)
         ELSE initialize_department_vectorstore(w.target, MemOf(w.target),
                                                disk[w.target], w.chunks, TRUE, IoOk)

threads == rq.threads

reader == rq.reader

\* thread t has changed the in-memory index of n and has not saved it yet
Writing(t, n) == threads[t].phase = "save" /\ Head(threads[t].todo).target = n

\* the query is inside a search call on index n
Traversing(n) == reader.phase = "traverse" /\ reader.target = n

ConcurrentInit ==
    /\ use_mmr = TRUE
    /\ vectorstore = Started(GLOBAL).mem
    /\ department_vectorstores = [d \in Departments |-> Started(d).mem]
    /\ dept_keys = <<"a", "b">>
    /\ disk = [n \in IndexNames |-> Started(n).file]
    /\ result = OpResult("none", GLOBAL)
    /\ hist = NoHist
    /\ \E c \in {1, 2}, e \in {3, 4}, n \in IndexNames :
           rq = [threads |->
                     [t \in Writers |->
                         [todo |-> CASE t = "process_document" ->
                                           IngestWrites(<<Chunk(c)>>, ChunkDept(c))
                                     [] t = "process_new_document" ->
                                           IngestWrites(<<Chunk(e)>>, ChunkDept(e))
                                     [] OTHER -> RebuildWrites(<<Chunk(1), Chunk(2)>>),
                          phase |-> "call"]],
                 reader |-> [phase |-> "call", target |-> n, seen |-> <<>>]]

\* the first library call of the next write of thread t: add_documents or
\* from_documents, which changes the in-memory index
ChangeIndex(t) ==
    /\ threads[t].phase = "call"
    /\ threads[t].todo # <<>>
    /\ \E w \in {Head(threads[t].todo)} :
       \E r \in {Handled(w)} :
           /\ IF w.target = GLOBAL
              THEN /\ vectorstore' = r.mem
                   /\ UNCHANGED department_vectorstores
              ELSE /\ department_vectorstores' =
                          [department_vectorstores EXCEPT ![w.target] = r.mem]
                   /\ UNCHANGED vectorstore
           /\ rq' = [rq EXCEPT !.threads[t].phase = "save"]
    /\ UNCHANGED <<use_mmr, dept_keys, disk, result, hist>>

\* save_local of that write: the index object as it is now goes to disk
SaveLocal(t) ==
    /\ threads[t].phase = "save"
    /\ \E w \in {Head(threads[t].todo)} :
           disk' = [disk EXCEPT ![w.target] = MemOf(w.target)]
    /\ rq' = [rq EXCEPT !.threads[t].phase = "call",
                        !.threads[t].todo = Tail(threads[t].todo)]
    /\ UNCHANGED <<use_mmr, vectorstore, department_vectorstores, dept_keys, result, hist>>

\* the query enters the search call of its index
BeginTraversal ==
    /\ reader.phase = "call"
    /\ rq' = [rq EXCEPT !.reader.phase = "traverse",
                        !.reader.seen = MemOf(reader.target).docs]
    /\ UNCHANGED <<use_mmr, vectorstore, department_vectorstores, dept_keys, disk, result,
                   hist>>

\* the search call returns: what it read of an index that changed under it
\* is the docstore as it was or as it is
EndTraversal ==
    /\ reader.phase = "traverse"
    /\ \E seen \in {reader.seen, MemOf(reader.target).docs} :
           rq' = [rq EXCEPT !.reader.phase = "done", !.reader.seen = seen]
    /\ UNCHANGED <<use_mmr, vectorstore, department_vectorstores, dept_keys, disk, result,
                   hist>>

ConcurrentNext ==
    \/ \E t \in Writers : ChangeIndex(t)
    \/ \E t \in Writers : SaveLocal(t)
    \/ BeginTraversal
    \/ EndTraversal

SpecConcurrent == ConcurrentInit /\ [][ConcurrentNext]_vars

(***************************************************************************)
(* SpecPartitions: the lifecycle operations on a store whose indexes       *)
(* coexist: any sequence of initialize, load and add on the global index   *)
(* and on the departments, with any outcome of the library and file        *)
(* system calls of the department operations, and restarts of the process. *)
(* initialize_all_department_vectorstores is called as startup_event calls *)
(* it: without arguments, on a store with no department in memory.  The    *)
(* history keeps the last operation if it was a load of a department.      *)
(***************************************************************************)
\* initialize_all_department_vectorstores called by a client: the
\* departments in the configured order, each with its own outcomes
InitializeAllDepartmentVectorstores(chunks, rebuild, ios) ==
    \E r \in {[d \in Departments |->
                  initialize_department_vectorstore(d, department_vectorstores[d],
                      disk[d], chunks, rebuild, ios[d])]} :
        /\ department_vectorstores' = [d \in Departments |-> r[d].mem]
        /\ dept_keys' =
               Bind(IF r["a"].mem.built THEN WithKey(dept_keys, "a") ELSE dept_keys,
                    LAMBDA keys : IF r["b"].mem.built THEN WithKey(keys, "b") ELSE keys)
        /\ disk' = [n \in IndexNames |-> IF n = GLOBAL THEN disk[n] ELSE r[n].file]
        /\ result' = [OpResult("initialize_all", NoDept) EXCEPT
                         !.ok = \A d \in Departments : r[d].ok]
        /\ UNCHANGED <<use_mmr, vectorstore, rq>>

\* the process ends and a new one is constructed: VectorStore.__init__ has
\* no index in memory, the index directories are as they were left
Restart ==
    /\ vectorstore' = NoIndex
    /\ department_vectorstores' = [d \in Departments |-> NoIndex]
    /\ dept_keys' = <<>>
    /\ result' = OpResult("restart", GLOBAL)
    /\ UNCHANGED <<use_mmr, disk, rq>>

\* the outcomes of a load: the persisted index is read, or is corrupt
LoadIOs == {IoOk, [IoOk EXCEPT !.load = FALSE]}

\* the outcomes of a department operation: besides those, the save fails,
\* and the build and the fallback both fail
PartitionIOs ==
    LoadIOs \cup {[IoOk EXCEPT !.save = FALSE],
                  [IoOk EXCEPT !.build = FALSE, !.fallback = FALSE]}

\* the chunk lists handed to the operations: none, and one document's chunk
\* (a rebuild with chunks does what an initialize with chunks does, an add
\* never loads: those inputs are drawn once)
PartitionChunkLists == {<<>>, <<Chunk(1)>>, <<Chunk(2)>>}

\* the departments are alike: every outcome is drawn for the operations on
\* department a, beside a department b whose builds and saves succeed
PartitionIOsOf(d) == IF d = "a" THEN PartitionIOs ELSE LoadIOs

LifecycleOps == {"initialize", "add"}

PartitionsNext ==
    \/ \E chunks \in {<<>>, <<Chunk(2)>>} :
           /\ InitializeVectorstore(chunks, FALSE, IoOk)
           /\ hist' = NoHist
    \/ \E d \in Departments, chunks \in PartitionChunkLists, rebuild \in BOOLEAN,
          io \in PartitionIOs :
           /\ io \in PartitionIOsOf(d)
           /\ rebuild => chunks = <<>>
           /\ InitializeDepartmentVectorstore(d, chunks, rebuild, io)
           /\ hist' = IF LoadAttempted(chunks, rebuild)
                      THEN Recorded("initialize", d, department_vectorstores[d],
                               chunks, rebuild,
                               initialize_department_vectorstore(d,
                                   department_vectorstores[d], disk[d], chunks,
                                   rebuild, io))
                      ELSE NoHist
    \/ \E ios \in [Departments -> LoadIOs] :
           /\ dept_keys = <<>>
           /\ InitializeAllDepartmentVectorstores(<<>>, FALSE, ios)
           /\ hist' = NoHist
    \/ /\ Restart
       /\ hist' = NoHist
    \/ /\ AddDocuments(<<Chunk(1)>>, IoOk)
       /\ hist' = NoHist
    \/ \E d \in Departments, chunks \in PartitionChunkLists, io \in PartitionIOs :
           /\ io.load /\ io \in PartitionIOsOf(d)
           /\ AddDocumentsToDepartment(d, chunks, io)
           /\ hist' = NoHist

\* the store after construction; use_mmr matters to retrieval only
PartitionsInit == Init /\ use_mmr = TRUE

SpecPartitions == PartitionsInit /\ [][PartitionsNext]_vars

(***************************************************************************)
(* SpecFailure: one fusion request on a store of freshly built indexes,    *)
(* with the outcomes of its calls kept in the history: those of the        *)
(* searches of each index, and those of the embedding provider for the     *)
(* query and for a chunk's text.                                           *)
(***************************************************************************)
FusionCalls(ocs, embedQuery, embedText) ==
    [op |-> "search_across_departments", ocs |-> ocs,
     embedQuery |-> embedQuery, embedText |-> embedText]

FailureNext ==
    \/ \E chunks \in FusionChunkLists :
           /\ ~FusionServed /\ ~vectorstore.built /\ dept_keys = <<>>
           /\ InitializeVectorstore(chunks, FALSE, IoOk)
           /\ UNCHANGED hist
    \/ \E d \in Departments, chunks \in FusionChunkLists :
           /\ ~FusionServed /\ ~vectorstore.built
           /\ ~department_vectorstores[d].built
           /\ InitializeDepartmentVectorstore(d, chunks, FALSE, IoOk)
           /\ UNCHANGED hist
    \/ \E departments \in DepartmentLists :
           \E q \in Queries, k \in Budgets, ocs \in FusionOcs(departments),
              embedQuery \in BOOLEAN, embedText \in BOOLEAN :
               /\ ~FusionServed
               /\ SearchAcrossDepartments(q, departments, k, ocs, embedQuery, embedText)
               /\ hist' = FusionCalls(ocs, embedQuery, embedText)

SpecFailure == Init /\ [][FailureNext]_vars

(***************************************************************************)
(* Single-index retrieval: the claims checked under Spec.                  *)
(***************************************************************************)
\* the docstore positions of the returned documents
Positions(docs) == [i \in 1..Len(docs) |-> docs[i].pos]

\* the budget of the last request: k, or the configured default if none given
GivenBudget == IF result.k = 0 THEN top_k_retrieval ELSE result.k

\* C1: similarity_search and search_department, on an index in any state
\* (absent, placeholder, populated) and for every query and budget, return
\* at most k chunks (the configured default when no k is given) and never
\* raise.
C1_AtMostKNeverRaises ==
    result.op \in SingleIndexOps =>
        /\ ~result.raised
        /\ Len(result.docs) <= GivenBudget

\* C1 witness: a request on a populated index whose searches all raised was
\* answered by the emergency enumeration, cut to a budget below the index size
C1_Witness ==
    /\ result.op \in SingleIndexOps
    /\ \E i \in 1..Len(result.tiers) : result.tiers[i].tier = "emergency"
    /\ result.k >= 1
    /\ Len(result.docs) = result.k
    /\ Len(MemOf(result.target).docs) > result.k

\* C2 (as stated): a search never returns the placeholder sentinel; on an
\* index built from an empty chunk list it returns the empty list.
C2_SentinelNeverReturned ==
    result.op \in SingleIndexOps =>
        \A i \in 1..Len(result.docs) : result.docs[i].kind # "placeholder"

\* the library calls of the last request, replayed without diversity search
PlainPath ==
    SearchIndex(FALSE, MemOf(result.target).docs, result.q, GivenBudget,
                NoDept, result.oc)

\* the diversity search of the last request raised
MmrRaised ==
    /\ result.op \in SingleIndexOps
    /\ result.tiers # <<>>
    /\ result.tiers[1] = [tier |-> "mmr", out |-> "raise"]

\* C5: when diversity (MMR) search is enabled and raises, the request
\* returns exactly the result of the plain search path on the same index
\* for the same query and k: the nearest neighbours whenever the plain
\* search finds any.
C5_MmrRaiseGivesPlainResult ==
    MmrRaised =>
        /\ Positions(result.docs) = PlainPath.hits
        /\ result.plain.hits # <<>> =>
               Positions(result.docs) =
                   LibSimilaritySearch(MemOf(result.target).docs, result.q, GivenBudget)

\* C5 witness: the diversity search raised on an index of two chunks and the
\* request returned the plain search's nearest neighbour, which is not the
\* first stored chunk
C5_Witness ==
    /\ MmrRaised
    /\ result.plain.hits # <<>>
    /\ Len(result.docs) = 1
    /\ result.docs[1].pos = 2
    /\ result.docs[1].kind = "chunk"

EnumTiers == {"direct", "enum", "emergency"}

\* C6: the tiers of a request are attempted in the order primary strategy,
\* plain similarity fallback, direct enumeration: a tier that finds chunks
\* ends the request, and the docstore is enumerated only after the primary
\* strategy and the plain search have each raised or returned nothing.
C6_TierOrder ==
    result.op \in SingleIndexOps =>
        \A i \in 1..Len(result.tiers) :
            /\ result.tiers[i].out = "hit" => i = Len(result.tiers)
            /\ result.tiers[i].tier = "mmr" => i = 1 /\ use_mmr
            /\ result.tiers[i].tier = "plain" =>
                   \A j \in 1..(i - 1) : result.tiers[j].tier \in {"mmr", "plain"}
            /\ result.tiers[i].tier \in EnumTiers =>
                   /\ i = Len(result.tiers)
                   /\ \A j \in 1..(i - 1) :
                          /\ result.tiers[j].tier \in {"mmr", "plain"}
                          /\ result.tiers[j].out \in {"empty", "raise"}
                   /\ \E j \in 1..(i - 1) : result.tiers[j].tier = "plain"
                   /\ use_mmr => result.tiers[1].tier = "mmr"

\* C6 witness: a request went through all three tiers: the diversity search
\* returned nothing, the plain search returned nothing, the enumeration
\* found chunks
C6_Witness ==
    /\ result.op \in SingleIndexOps
    /\ Len(result.tiers) = 3
    /\ result.tiers[1] = [tier |-> "mmr", out |-> "empty"]
    /\ result.tiers[2] = [tier |-> "plain", out |-> "empty"]
    /\ result.tiers[3] = [tier |-> "enum", out |-> "hit"]

\* the index the last request targeted stores at least one chunk
TargetHoldsChunk ==
    /\ MemOf(result.target).built
    /\ \E p \in 1..Len(MemOf(result.target).docs) :
           MemOf(result.target).docs[p].kind = "chunk"

\* C7: when the targeted index stores at least one chunk, its docstore can
\* be enumerated and k >= 1, the request returns a non-empty result, also
\* when the primary strategy and the plain search raise or return nothing.
C7_NonEmptyWhenEnumerable ==
    (/\ result.op \in SingleIndexOps
     /\ TargetHoldsChunk
     /\ result.oc.enum
     /\ GivenBudget >= 1) => result.docs # <<>>

\* C7 witness: both searches raised on an index that stores chunks, and the
\* request still returned chunks
C7_Witness ==
    /\ result.op \in SingleIndexOps
    /\ TargetHoldsChunk
    /\ Len(result.tiers) = 3
    /\ result.tiers[1].out = "raise"
    /\ result.tiers[2].out = "raise"
    /\ result.tiers[3] = [tier |-> "emergency", out |-> "hit"]
    /\ result.docs # <<>>

(***************************************************************************)
(* Fusion: the claims checked under SpecFusion.                            *)
(***************************************************************************)
\* the place of a returned document in the merged sequence of the request
MergedIndex(d) ==
    CHOOSE j \in 1..Len(result.merged) :
        result.merged[j].src = d.src /\ result.merged[j].pos = d.pos

\* the returned documents are in non-increasing score order, those of equal
\* score in the order in which they were merged
SortedStable ==
    \A i, j \in 1..Len(result.docs) :
        i < j =>
            /\ result.docs[i].relevance_score >= result.docs[j].relevance_score
            /\ (/\ result.path = "merge"
                /\ result.docs[i].relevance_score = result.docs[j].relevance_score)
                   => MergedIndex(result.docs[i]) < MergedIndex(result.docs[j])

\* C3 (as stated): search_across_departments returns chunks in
\* non-increasing relevance_score order; among chunks of equal score the one
\* of the earlier-scanned partition comes first and chunks of one partition
\* keep their per-partition rank.
C3_SortedByScoreStable ==
    result.op = "search_across_departments" => SortedStable

\* the returned documents are min(k, merged) documents of the merge, and no
\* document of the merge left out has a higher score than a returned one
TopOfMerge ==
    /\ Len(result.docs) = Min(GivenBudget, Len(result.merged))
    /\ \A i \in 1..Len(result.docs) :
           \E j \in 1..Len(result.merged) : result.merged[j] = result.docs[i]
    /\ \A j \in 1..Len(result.merged) :
           (\A i \in 1..Len(result.docs) : result.docs[i] # result.merged[j])
               => \A i \in 1..Len(result.docs) :
                      result.merged[j].relevance_score <= result.docs[i].relevance_score

\* C4 (as stated): search_across_departments returns exactly the first k
\* elements of the score-sorted merge of the scanned partitions' results:
\* min(k, number of merged chunks) of them, none left out scoring higher.
C4_FirstKOfMerge ==
    result.op = "search_across_departments" => TopOfMerge

\* C4 (amended): when a partition filter is given or a department index
\* exists, search_across_departments returns exactly the first k elements of
\* the stable score-sorted merge; with no filter and no department index it
\* merges nothing and returns what similarity_search gives on the global
\* index.
C4_FirstKOfMergeOrGlobal ==
    result.op = "search_across_departments" =>
        /\ result.path = "merge" => TopOfMerge /\ SortedStable
        /\ result.path = "global" =>
               /\ result.merged = <<>>
               /\ \A d \in Departments : ~department_vectorstores[d].built
               /\ Positions(result.docs) =
                      similarity_search(vectorstore, result.q, result.k, result.oc).hits
               /\ \A i \in 1..Len(result.docs) : result.docs[i].src = GLOBAL

\* C4 witness: a fusion over two departments merged more chunks than the
\* budget and left out a chunk scoring lower than one it returned
C4_Witness ==
    /\ result.op = "search_across_departments"
    /\ result.path = "merge"
    /\ Len(result.scan) = Cardinality(Departments)
    /\ Len(result.merged) > Len(result.docs)
    /\ Len(result.docs) = GivenBudget
    /\ \E j \in 1..Len(result.merged) :
           /\ \A i \in 1..Len(result.docs) : result.docs[i] # result.merged[j]
           /\ \E i \in 1..Len(result.docs) :
                  result.merged[j].relevance_score < result.docs[i].relevance_score
    /\ \E i \in 1..Len(result.docs) : result.docs[i].src # result.docs[1].src

(***************************************************************************)
(* The refiner: the claims checked under SpecRefiner.                      *)
(***************************************************************************)
\* the refiner has returned
Refined == rq.pc = "done"

\* document i of the request was neither passed through nor given a prefix
\* window
Windowed(i) ==
    /\ ~ErrorFlagged(rq.docs[i])
    /\ Len(Split(rq.docs[i].content)) > 2 * rq.window_size
    /\ ~NoGoodMatch(rq.query, Split(rq.docs[i].content),
                    Scores(rq.query, Split(rq.docs[i].content)))

\* m (counted from 0) is the first sentence of maximal overlap with the query
FirstBest(sentences, m) ==
    /\ m \in 0..(Len(sentences) - 1)
    /\ \A j \in 1..Len(sentences) :
           Overlap(rq.query, sentences[j]) <= Overlap(rq.query, sentences[m + 1])
    /\ \A j \in 1..m :
           Overlap(rq.query, sentences[j]) < Overlap(rq.query, sentences[m + 1])

\* the content "S1. S2. S3. S4. S5. S6. S7. S8." and the query "s5."
ExampleContent == Content(8, 0, 1, FALSE)

ExampleQuery == <<Word(5, TRUE, FALSE)>>

ExampleWindow == Join([i \in 1..5 |-> Sentence(i + 2, FALSE)])

C10_EmptyContentPassThrough ==
    Refined =>
        \A i \in 1..Len(rq.docs) :
            rq.docs[i].content = <<>> =>
                /\ rq.out[i].same
                /\ rq.out[i].metadata = rq.docs[i].metadata

\* no sentence of document i reaches the score 0.1 and the document has more
\* than 10 sentences
Unmatched(i) ==
    /\ Len(Split(rq.docs[i].content)) > 10
    /\ \A j \in 1..Len(Split(rq.docs[i].content)) :
           Overlap(rq.query, Split(rq.docs[i].content)[j]) * 10
               < Max(Cardinality(Terms(rq.query)), 1)

\* output i is the prefix window of document i: a new document of its first
\* 10 sentences joined by single spaces, tagged "prefix"
IsPrefixOf(i) ==
    /\ ~rq.out[i].same
    /\ rq.out[i].content = Join(SubSeq(Split(rq.docs[i].content), 1, 10))
    /\ "window_type" \in rq.out[i].metadata.keys
    /\ rq.out[i].metadata.window_type = "prefix"

\* C11 (as stated): a chunk of more than 10 sentences none of which reaches
\* the overlap score 0.1 is returned as the prefix window of its first 10
\* sentences, whatever the query, and the output has one document per input.
C11_PrefixWindow ==
    Refined =>
        /\ Len(rq.out) = Len(rq.docs)
        /\ \A i \in 1..Len(rq.docs) : Unmatched(i) => IsPrefixOf(i)

\* C11 (amended): a chunk of more than 10 and more than 2w sentences that is
\* not flagged as an error and none of whose sentences reaches the overlap
\* score 0.1 is returned as the prefix window of its first 10 sentences,
\* whatever the query; a chunk of more than 10 unmatched sentences that is
\* flagged or has at most 2w sentences is returned as it was; the output has
\* one document per input.
C11_PrefixWindowUnlessPassedThrough ==
    Refined =>
        /\ Len(rq.out) = Len(rq.docs)
        /\ \A i \in 1..Len(rq.docs) :
               Unmatched(i) =>
                   IF \/ ErrorFlagged(rq.docs[i])
                      \/ Len(Split(rq.docs[i].content)) <= 2 * rq.window_size
                   THEN rq.out[i] = SameObject(rq.docs[i])
                   ELSE IsPrefixOf(i)

\* C11 witness: a chunk of more than 10 sentences, with a query of words
\* none of which is in it, was returned as its prefix window
C11_Witness ==
    /\ Refined
    /\ Len(rq.docs) = 1
    /\ Unmatched(1)
    /\ rq.query # <<>>
    /\ ~ErrorFlagged(rq.docs[1])
    /\ Len(Split(rq.docs[1].content)) > 2 * rq.window_size
    /\ IsPrefixOf(1)
    /\ rq.out[1].content # rq.docs[1].content

\* the value of a metadata key other than the window annotations
ValueOf(md, key) == IF key = "error" THEN md.error ELSE md.relevance_score

\* output i was made from input i: the input's content, or some of its
\* sentences in their order
MadeFrom(i) ==
    IF rq.out[i].same THEN rq.out[i].content = rq.given[i].content
    ELSE \E a \in 1..Len(Split(rq.given[i].content)) :
             \E b \in a..Len(Split(rq.given[i].content)) :
                 rq.out[i].content = Join(SubSeq(Split(rq.given[i].content), a, b))

\* C12: the output list has one document per input document, in the input's
\* order; each output document has every metadata key of its input with the
\* input's value, relevance_score included, and no other key than the window
\* annotations; the input documents are as they were handed over.
C12_MetadataPreserved ==
    Refined =>
        /\ Len(rq.out) = Len(rq.given)
        /\ rq.docs = rq.given
        /\ \A i \in 1..Len(rq.given) :
               /\ MadeFrom(i)
               /\ rq.given[i].metadata.keys \subseteq rq.out[i].metadata.keys
               /\ \A key \in rq.given[i].metadata.keys :
                      ValueOf(rq.out[i].metadata, key) = ValueOf(rq.given[i].metadata, key)
               /\ rq.out[i].metadata.keys \ rq.given[i].metadata.keys \subseteq WindowKeys

\* C12 witness: of a list of two different chunks, the first, which carries
\* a relevance score, was given a context window and the second a prefix
\* window
C12_Witness ==
    /\ Refined
    /\ Len(rq.given) = 2
    /\ rq.given[1].content # rq.given[2].content
    /\ "relevance_score" \in rq.given[1].metadata.keys
    /\ rq.out[1].metadata.relevance_score = ScoreSearch
    /\ rq.out[1].metadata.window_type = "context"
    /\ rq.out[1].content # rq.given[1].content
    /\ rq.out[2].metadata.window_type = "prefix"
    /\ rq.given[2].metadata.keys = {}

(***************************************************************************)
(* The index manager: the claims checked under SpecLifecycle.              *)
(***************************************************************************)
\* the last lifecycle operation was initialize
Initialized == hist.op = "initialize"

\* the last lifecycle operation was initialize(chunks=None, rebuild=False),
\* it loaded its index, and the operation before it was a successful
\* initialize(chunks=None, rebuild=False) of the same index that loaded or
\* saved it
LoadedAgain ==
    /\ Initialized
    /\ hist.chunks = <<>> /\ ~hist.rebuild
    /\ hist.calls.load = "ok"
    /\ hist.prev = [what |-> "initialize", target |-> hist.target]

\* C13: when initialize(partition, chunks=None, rebuild=False) is called
\* twice in succession and the second call loads what the first persisted,
\* the second call succeeds and the index reports the same chunk_count after
\* it as after the first call, for the global index and for every department.
C13_SameCountWhenLoadedAgain ==
    LoadedAgain =>
        /\ hist.ok
        /\ hist.count = hist.before
        /\ chunk_count(MemOf(hist.target)) = hist.before
        /\ chunk_count(disk[hist.target]) = hist.before

\* C13 witness: a department index made of its placeholder was loaded again
C13_Witness ==
    /\ LoadedAgain
    /\ hist.target \in Departments
    /\ hist.before = 1
    /\ MemOf(hist.target) = Index(<<Placeholder>>)

\* the ids of the entries of an index, in the order of its docstore
Entries(index) == [i \in 1..Len(index.docs) |-> index.docs[i].id]

\* initialize has just returned success without having loaded its index
CreatedNow ==
    /\ Initialized
    /\ result.op = "initialize"
    /\ hist.ok
    /\ hist.calls.load # "ok"

\* C14 (as stated): whenever initialize has created an index rather than
\* loaded one and reports success, the directory of that index holds an
\* index with the same entries as the one in memory, so that a later
\* initialize(chunks=None, rebuild=False) would load an equal index.
C14_PersistedAfterCreation ==
    CreatedNow =>
        /\ disk[hist.target].built
        /\ Entries(disk[hist.target]) = Entries(MemOf(hist.target))
        /\ initialize_vectorstore(MemOf(hist.target), disk[hist.target], <<>>,
                                  FALSE, IoOk).mem = MemOf(hist.target)

\* the primary attempt of the last initialize raised: the try block, which
\* creates the index and saves it
PrimaryRaised == hist.calls.build = "raise" \/ hist.calls.save = "raise"

\* C15: initialize reports failure exactly when its primary attempt (the
\* creation of the index and its saving) raised and the fallback creation
\* of a placeholder index raised too; the fallback is attempted once when
\* the primary attempt raised and not otherwise; after a call that reports
\* success the index exists in memory.
C15_FailureIffBothFail ==
    Initialized =>
        /\ ~hist.ok <=> (PrimaryRaised /\ hist.calls.fallback = "raise")
        /\ hist.calls.fallback # "none" <=> PrimaryRaised
        /\ hist.ok => MemOf(hist.target).built

\* C15 witness: the creation and the fallback both raised, initialize
\* reported failure and left no index
C15_Witness ==
    /\ Initialized
    /\ hist.calls.build = "raise"
    /\ hist.calls.fallback = "raise"
    /\ ~hist.ok
    /\ ~MemOf(hist.target).built

\* the last lifecycle operation was an add on an existing index that
\* inserted its chunks and then failed to save the index
UnsavedAdd ==
    /\ hist.op = "add"
    /\ hist.before > 0
    /\ hist.calls.build = "ok"
    /\ hist.calls.save = "raise"

\* the chunks the last add had to insert
Inserted ==
    IF hist.target = GLOBAL THEN hist.chunks ELSE DeptChunks(hist.chunks, hist.target)

\* the index of the last lifecycle operation holds the inserted chunks as
\* its last entries
HoldsInserted ==
    /\ MemOf(hist.target).built
    /\ Len(Entries(MemOf(hist.target))) = hist.before + Len(Inserted)
    /\ \A i \in 1..Len(Inserted) :
           Entries(MemOf(hist.target))[hist.before + i] = Inserted[i].id

\* a retrieval on the index of the last lifecycle operation has been served
SearchedAfter == result.op \in SingleIndexOps /\ result.target = hist.target

\* C16: when an add on an existing index has inserted its chunks and saving
\* then fails, add reports failure, the index in memory holds the inserted
\* chunks, and a later search on it does not raise and, when its budget
\* covers the whole index, returns the inserted chunks.
C16_UnsavedAddStaysInMemory ==
    UnsavedAdd =>
        /\ ~hist.ok
        /\ Inserted # <<>>
        /\ HoldsInserted
        /\ SearchedAfter =>
               /\ ~result.raised
               /\ Len(MemOf(hist.target).docs) <= top_k_retrieval =>
                      \A i \in 1..Len(Inserted) :
                          \E j \in 1..Len(result.docs) :
                              result.docs[j].id = Inserted[i].id

\* C16 witness: a chunk inserted by an add that failed to save is not in the
\* saved index and was returned by a later search
C16_Witness ==
    /\ UnsavedAdd
    /\ SearchedAfter
    /\ ~hist.ok
    /\ \A p \in 1..Len(disk[hist.target].docs) :
           disk[hist.target].docs[p].id # Inserted[1].id
    /\ \E j \in 1..Len(result.docs) : result.docs[j].id = Inserted[1].id

\* every real chunk of the index belongs to department d
AllOfDepartment(index, d) ==
    \A p \in 1..Len(index.docs) :
        index.docs[p].kind = "chunk" => index.docs[p].department = d

\* C17: after any sequence of initialize and add operations, those given a
\* chunk list that mixes departments included, every real chunk held by the
\* index of a department, in memory or saved, has that department in its
\* metadata.
C17_DepartmentOfStoredChunks ==
    \A d \in Departments :
        /\ AllOfDepartment(department_vectorstores[d], d)
        /\ AllOfDepartment(disk[d], d)

\* C17 witness: an add of a list of chunks of two departments inserted a
\* chunk into the index of one of them
C17_Witness ==
    /\ hist.op = "add"
    /\ hist.target \in Departments
    /\ hist.before > 0
    /\ hist.ok
    /\ \E i, j \in 1..Len(hist.chunks) :
           hist.chunks[i].department # hist.chunks[j].department
    /\ hist.count = hist.before + 1
    /\ \E p \in 1..Len(MemOf(hist.target).docs) :
           MemOf(hist.target).docs[p].kind = "chunk"

\* the positions of the entries of one kind in an index
OfKind(index, kind) == {p \in 1..Len(index.docs) : index.docs[p].kind = kind}

\* an index that exists is an empty placeholder (one sentinel entry, no real
\* chunk) or populated (real chunks, no sentinel entry)
PlaceholderOrPopulated(index) ==
    index.built =>
        \/ /\ Cardinality(OfKind(index, "placeholder")) = 1
           /\ OfKind(index, "chunk") = {}
        \/ /\ OfKind(index, "placeholder") = {}
           /\ OfKind(index, "chunk") # {}

\* C18 (as stated): in every reachable state each index, in memory or saved,
\* is absent, an empty placeholder with exactly one sentinel entry and no
\* real chunk, or populated with real chunks and no sentinel entry, also
\* after an add on an index created as a placeholder.
C18_AbsentPlaceholderOrPopulated ==
    \A n \in IndexNames :
        /\ PlaceholderOrPopulated(MemOf(n))
        /\ PlaceholderOrPopulated(disk[n])

(***************************************************************************)
(* Unknown partitions: checked under SpecFusion.                           *)
(***************************************************************************)
\* the departments argument of the last fusion names departments, none of
\* which has an index
OnlyUnknown ==
    /\ result.departments # <<>>
    /\ \A i \in 1..Len(result.departments) :
           ~department_vectorstores[result.departments[i]].built

\* C19: search_department on a department without an index returns the
\* empty list and does not raise; search_across_departments does not raise
\* and returns no chunk for a department without an index, and returns the
\* empty list when its departments argument names only such departments.
C19_UnknownPartitionGivesNothing ==
    /\ (result.op = "search_department"
        /\ ~department_vectorstores[result.target].built)
           => result.docs = <<>> /\ ~result.raised
    /\ result.op = "search_across_departments" =>
           /\ ~result.raised
           /\ \A j \in 1..Len(result.docs) : MemOf(result.docs[j].src).built
           /\ OnlyUnknown => result.docs = <<>>

\* C19 witness: while another department holds real chunks, a fusion whose
\* filter names only a department without an index returned the empty list
C19_Witness ==
    /\ result.op = "search_across_departments"
    /\ OnlyUnknown
    /\ result.docs = <<>>
    /\ \E d \in Departments :
           /\ department_vectorstores[d].built
           /\ OfKind(department_vectorstores[d], "chunk") # {}

(***************************************************************************)
(* Relevance scores of returned chunks: checked under SpecFusion.          *)
(***************************************************************************)
\* the score a tier gives to a document that has none
TierDefault(tier) ==
    CASE tier \in {"mmr", "plain"} -> ScoreSearch
      [] tier = "direct" -> ScoreDirect
      [] tier = "enum" -> ScoreFallback
      [] tier = "emergency" -> ScoreEmergency

TierDefaults == {ScoreSearch, ScoreDirect, ScoreFallback, ScoreEmergency}

\* C20: every chunk returned by similarity_search, search_department or
\* search_across_departments has a relevance_score, and it lies in [0,1]
\* (0..100 hundredths); the chunks returned by a single-index search, which
\* in these runs is served on an index whose documents have no score yet,
\* have the default score of the tier that produced the result, and every
\* chunk returned by a fusion has the default score of some tier.
C20_ScoredInUnitInterval ==
    result.op \in RetrievalOps =>
        \A j \in 1..Len(result.docs) :
            /\ result.docs[j].relevance_score # NoScore
            /\ result.docs[j].relevance_score \in 0..100
            /\ result.docs[j].relevance_score \in TierDefaults
            /\ result.op \in SingleIndexOps =>
                   /\ result.tiers # <<>>
                   /\ result.docs[j].relevance_score =
                          TierDefault(result.tiers[Len(result.tiers)].tier)

\* C20 witness: a fusion returned a chunk scored by the primary search next
\* to a chunk that kept the score an emergency enumeration had given it
C20_Witness ==
    /\ result.op = "search_across_departments"
    /\ result.path = "merge"
    /\ \E i, j \in 1..Len(result.docs) :
           /\ result.docs[i].relevance_score = ScoreSearch
           /\ result.docs[j].relevance_score = ScoreEmergency
           /\ result.docs[i].src = result.docs[j].src

(***************************************************************************)
(* evaluate_context_relevance: checked under SpecEvaluate.                 *)
(***************************************************************************)
\* C21 (as stated): evaluate_context_relevance returns the maximum relevance
\* score of the given chunks, 0.0 when there are none, and
\* has_relevant_context is true exactly when that maximum is at least the
\* threshold passed by the caller.
C21_RelevantIffAboveThreshold ==
    Evaluated =>
        /\ result.max_similarity =
               IF result.docs = <<>> THEN 0 ELSE MaxSimilarity(result.docs)
        /\ result.has_relevant_context <=> result.max_similarity >= result.threshold

(***************************************************************************)
(* Ephemeral scores: checked under SpecFusion.                             *)
(***************************************************************************)
\* no document of the index carries a relevance_score
Unscored(index) ==
    \A p \in 1..Len(index.docs) : index.docs[p].relevance_score = NoScore

\* C22 (as stated): relevance_score is ephemeral: no chunk stored in an
\* index, in memory or saved, carries a relevance_score left by a query, and
\* the score a search returns for a chunk does not depend on the searches
\* served before it: a chunk found by the primary search of the global index
\* is returned with the score of that tier.
C22_ScoreEphemeral ==
    /\ \A n \in IndexNames : Unscored(MemOf(n)) /\ Unscored(disk[n])
    /\ (/\ result.op = "search_across_departments"
        /\ result.path = "global"
        /\ result.oc = NoOutcome)
           => \A j \in 1..Len(result.docs) :
                  result.docs[j].relevance_score = ScoreSearch

(***************************************************************************)
(* Concurrent writers and readers: the claim checked under SpecConcurrent. *)
(***************************************************************************)
\* C23: writes to one partition's index, issued from upload background
\* tasks, the rebuild task and file-watcher callbacks, are serialized: no
\* two threads are inside a write to the same index at once, and no thread
\* is inside a write to an index while a search traverses it.
C23_WritesSerialized ==
    \A n \in IndexNames :
        /\ \A t, u \in Writers : Writing(t, n) /\ Writing(u, n) => t = u
        /\ \A t \in Writers : Writing(t, n) => ~Traversing(n)

(***************************************************************************)
(* Coexisting indexes: the claim checked under SpecPartitions.             *)
(***************************************************************************)
\* the in-memory index and the persisted directory of name n are as before
Untouched(n) == MemOf(n)' = MemOf(n) /\ disk'[n] = disk[n]

\* the step is the lifecycle operation op on the index of name n
StepOf(op, n) ==
    /\ result'.op = op /\ result'.target = n
    /\ <<vectorstore, department_vectorstores, disk, result>>' #
           <<vectorstore, department_vectorstores, disk, result>>

\* C24: initialize, add and load on one partition, including a load that
\* fails because that partition's persisted index is corrupt, leave the
\* in-memory index and the persisted directory of every other partition and
\* of the global index unchanged; initialize_all leaves the global index
\* unchanged.
C24_OtherPartitionsUntouched ==
    [][/\ \A d \in Departments, op \in LifecycleOps :
              StepOf(op, d) => \A n \in IndexNames \ {d} : Untouched(n)
       /\ StepOf("initialize_all", NoDept) => Untouched(GLOBAL)]_vars

\* a load of department a has failed on a corrupt index and the department
\* was rebuilt as a placeholder, beside a populated global index and a
\* populated department b
C24_Witness ==
    /\ hist.op = "initialize" /\ hist.target = "a"
    /\ hist.calls.load = "raise" /\ hist.ok
    /\ department_vectorstores["a"] = Index(<<Placeholder>>)
    /\ Len(vectorstore.docs) = MaxDocs /\ disk[GLOBAL] = vectorstore
    /\ department_vectorstores["b"] = Index(<<Chunk(2)>>)
    /\ disk["b"] = department_vectorstores["b"]

(***************************************************************************)
(* Fusion while the embedding provider fails: checked under SpecFailure.   *)
(***************************************************************************)
\* the searches of index n raised: the provider could not embed the query
SearchRaised(n) == hist.ocs[n].mmr = "raise" /\ hist.ocs[n].plain = "raise"

\* the embedding provider failed during the fusion request
ProviderFailed ==
    /\ hist.op = "search_across_departments"
    /\ \/ ~hist.embedQuery
       \/ ~hist.embedText
       \/ \E n \in IndexNames : SearchRaised(n)

\* the scores given where the similarity could not be computed
FailureDefaults == {ScoreDirect, ScoreFallback, ScoreEmergency}

\* the entries of the merge that come from department d
MergedFrom(d) == SelectSeq(result.merged, LAMBDA m : m.src = d)

\* C25: if the embedding provider fails during fusion (embedding the query
\* or re-embedding a chunk), search_across_departments does not abort: it
\* returns the merged, sorted, truncated results, every department it was
\* asked for is scanned and, if its docstore can be read, contributes up to
\* k of its chunks, and each chunk whose similarity could not be computed carries a
\* default score instead.
C25_FusionSurvivesProviderFailure ==
    ProviderFailed =>
        /\ result.op = "search_across_departments"
        /\ ~result.raised
        /\ SortedStable
        /\ result.path = "merge" =>
               /\ TopOfMerge
               /\ \A d \in Searched(result.departments) :
                      /\ \E i \in 1..Len(result.scan) : result.scan[i] = d
                      /\ (SearchRaised(d) /\ hist.ocs[d].enum)
                             => Len(MergedFrom(d)) =
                                    Min(GivenBudget, Len(department_vectorstores[d].docs))
               /\ \A j \in 1..Len(result.merged) :
                      SearchRaised(result.merged[j].src)
                          => result.merged[j].relevance_score \in FailureDefaults
        /\ \A j \in 1..Len(result.docs) :
               /\ result.docs[j].relevance_score # NoScore
               /\ result.docs[j].relevance_score \in TierDefaults

\* C25 witness: the provider was down (query not embedded, the searches of
\* department a raised), department b was searched normally, and the fusion
\* returned chunks of both, sorted, those of a with a default score
C25_Witness ==
    /\ ProviderFailed
    /\ ~hist.embedQuery
    /\ SearchRaised("a") /\ ~SearchRaised("b")
    /\ result.path = "merge"
    /\ \E i, j \in 1..Len(result.docs) :
           /\ result.docs[i].src = "b" /\ result.docs[i].relevance_score = ScoreSearch
           /\ result.docs[j].src = "a"
           /\ result.docs[j].relevance_score \in FailureDefaults
           /\ i < j

(***************************************************************************)
(* Durability of added chunks: checked under SpecPartitions.               *)
(***************************************************************************)
\* the ids of the chunks an index holds, the placeholder left out
ChunksOf(index) ==
    {index.docs[i].id : i \in {j \in 1..Len(index.docs) : index.docs[j].kind = "chunk"}}

\* C26 (as stated): a successful add never removes chunks from a
\* partition's durable index: every chunk in the partition's persisted index
\* before the add is still in it afterwards, also when the add is issued
\* while the index exists on disk but is not loaded into memory.
C26_AddKeepsPersistedChunks ==
    [][\A n \in IndexNames :
           (StepOf("add", n) /\ result'.ok) => ChunksOf(disk[n]) \subseteq ChunksOf(disk'[n])]_vars

(***************************************************************************)
(* The contents of a freshly initialized index: checked under              *)
(* SpecLifecycle.                                                          *)
(***************************************************************************)
\* C27 (as stated): when initialize is called with a chunk list of which at
\* least one chunk matches the partition (any chunk for the global index)
\* and reports success, the in-memory index holds exactly the matching
\* chunks, in the order supplied, also when saving the fresh index failed.
C27_InitializeHoldsMatchingChunks ==
    (hist.op = "initialize" /\ Inserted # <<>> /\ hist.ok) =>
        /\ MemOf(hist.target).built
        /\ Entries(MemOf(hist.target)) = [i \in 1..Len(Inserted) |-> Inserted[i].id]

(***************************************************************************)
(* Refining a refined list: checked under SpecRefineTwice.                 *)
(***************************************************************************)
\* C28 (as stated): refinement is idempotent on content: applying
\* enhanced_context_window a second time, with the same query and window
\* size, to its own output leaves the content of every document unchanged,
\* for context windows, prefix windows and passed-through chunks alike.
C28_RefineIdempotent ==
    rq.pc = "again" =>
        /\ Len(rq.out) = Len(rq.given)
        /\ \A i \in 1..Len(rq.out) : rq.out[i].content = rq.given[i].content

(***************************************************************************)
(* The rate limiter: checked under SpecLimiter.                            *)
(***************************************************************************)
\* the times at which requests of the client to the endpoint were admitted
AdmittedTimes(client_id, endpoint) ==
    Bind(SelectSeq(rq.log, LAMBDA a : a.client = client_id /\ a.endpoint = endpoint),
         LAMBDA admitted : [i \in 1..Len(admitted) |-> admitted[i].time])

RECURSIVE WindowOf(_, _)
\* the window the i-th admitted request falls in: the time of the first
\* admitted request of that window, and the requests admitted in it so far
WindowOf(times, i) ==
    IF i = 1 THEN [start |-> times[1], count |-> 1]
    ELSE Bind(WindowOf(times, i - 1),
              LAMBDA w : IF times[i] - w.start > window
                         THEN [start |-> times[i], count |-> 1]
                         ELSE [start |-> w.start, count |-> w.count + 1])

\* C29: for every client and endpoint, at most limit requests are admitted
\* within one window of window seconds counted from the first admitted
\* request of that window, and the table holds that window's start and
\* count; a rejected request changes neither the counter nor the window
\* start; the first request after the window has expired is admitted and
\* starts a new window with count 1.
C29_AtMostLimitPerWindow ==
    /\ \A c \in Clients, e \in Endpoints :
           Bind(AdmittedTimes(c, e),
                LAMBDA times :
                    /\ \A i \in 1..Len(times) : WindowOf(times, i).count <= limit
                    /\ requests.data[c][e].present =>
                           /\ times # <<>>
                           /\ requests.data[c][e].start_time =
                                  WindowOf(times, Len(times)).start
                           /\ requests.data[c][e].count =
                                  WindowOf(times, Len(times)).count)
    /\ (rq.last.client # "none" /\ ~rq.last.allowed) =>
           /\ rq.last.before.present
           /\ requests.data[rq.last.client][rq.last.endpoint] = rq.last.before
    /\ (/\ rq.last.client # "none"
        /\ rq.last.before.present
        /\ rq.last.time - rq.last.before.start_time > window) =>
           /\ rq.last.allowed
           /\ requests.data[rq.last.client][rq.last.endpoint] = Entry(1, rq.last.time)

\* C29 witness: a client was admitted limit times to an endpoint in one
\* window, was rejected there while admitted to another endpoint, and its
\* first request after the window had expired started a new window
C29_Witness ==
    /\ rq.last.client = "ip:h" /\ rq.last.endpoint = "GET /query"
    /\ rq.last.before = Entry(limit, 0)
    /\ rq.last.time - rq.last.before.start_time > window
    /\ rq.last.allowed
    /\ requests.data["ip:h"]["GET /query"] = Entry(1, rq.last.time)
    /\ rq.sent > Len(rq.log)
    /\ Len(AdmittedTimes("ip:h", "GET /query")) = limit + 1

(***************************************************************************)
(* The file watcher: checked under SpecWatcher.                            *)
(***************************************************************************)
\* C30 (as stated): a path in the processing queue is processed by at most
\* one process_file run: events for a path that is already queued never make
\* the callbacks run a second time for it, no two runs handle the same path
\* at the same time, and a queued path leaves the queue when its run ends.
C30_AtMostOneRunPerQueuedPath ==
    \A p \in Paths :
        /\ rq.running[p] <= 1
        /\ rq.handled[p] <= 1
        /\ (rq.running[p] = 0 /\ rq.handled[p] > 0) => p \notin processing_queue

=============================================================================
